---- MODULE Spec2Model ----
(***************************************************************************)
(* Request authentication and authorization gateway of render-mcp-bridge:  *)
(* the auth middleware (authenticate, verifyToken, verifyBasicAuth), the   *)
(* scope helpers (parseScopes, hasAllScopes, hasAnyScope, requireScopes)   *)
(* the audit middleware (auditLog, createAuditLog) and the rate limiters    *)
(* (createRateLimiter and its presets).                                    *)
(*                                                                         *)
(* JavaScript values are records tagged by their type.  A string is kept   *)
(* as the list of words that split(' ') gives for it, so that the code's   *)
(* split / startsWith / filter(Boolean) are computed and not assumed.      *)
(***************************************************************************)
EXTENDS Integers, Sequences, FiniteSets, TLC

VARIABLES
    env,        \* process.env as read when the auth module loads
    proc,       \* "loading" | "running" | "exited"
    route,      \* the route the request is for: authenticate options, requireScopes policy
    pc,         \* position of the request in the middleware chain
    req,        \* the request object: headers, req.user, req.auth
    res,        \* the response object: statusCode, body, res.end hook, times really ended
    verif,      \* the pending verifyToken promise of the request
    auditSink,  \* the [AUDIT] lines written to the log stream
    sent,       \* the responses written to clients, in order
    calls,      \* how often next() of authenticate, verifyToken, next() of requireScopes and the handler ran
    limiter,    \* the rate limiter of the route: its options, its store of hit counts, the clock
    limiters,   \* the named rate limiters, each with its own store, and what each has received and let through
    burst,      \* the requests that are inside a rate limiter at the same time
    jwks,       \* the JWKS client: its key cache, the fetches under way and their waiters
    metrics,    \* the Prometheus registry: active connections, request records, rate limit counter
    script      \* a run of test-auth-comprehensive.sh: its counters, where it is, its exit status

vars == <<script, env, proc, route, pc, req, res, verif, auditSink, sent, calls, limiter,
          limiters, burst, jwks, metrics>>

----------------------------------------------------------------------------
(* JavaScript values *)

Undef == [t |-> "undefined"]
Null == [t |-> "null"]
Str(s) == [t |-> "string", w |-> <<s>>]
StrW(ws) == [t |-> "string", w |-> ws]
Num(n) == [t |-> "number", n |-> n]
Arr(a) == [t |-> "array", a |-> a]

EmptyStr == StrW(<<"">>)

\* JavaScript truthiness: undefined, null and '' are falsy; arrays and objects are truthy
Truthy(v) ==
    CASE v.t = "undefined" -> FALSE
      [] v.t = "null" -> FALSE
      [] v.t = "string" -> ~(Len(v.w) = 1 /\ v.w[1] = "")
      [] v.t = "number" -> v.n # 0
      [] OTHER -> TRUE

\* a === b for the primitive values of the model; an array equals only itself
StrictEq(a, b) ==
    /\ a.t = b.t
    /\ CASE a.t = "string" -> a.w = b.w
         [] a.t = "number" -> a.n = b.n
         [] a.t = "array" -> FALSE
         [] a.t = "object" -> FALSE
         [] OTHER -> TRUE

\* a || b
Or(a, b) == IF Truthy(a) THEN a ELSE b

RECURSIVE FilterBoolean(_)
\* words.filter(Boolean): the empty words that repeated spaces leave are dropped
FilterBoolean(ws) ==
    IF ws = <<>> THEN <<>>
    ELSE IF Head(ws) = "" THEN FilterBoolean(Tail(ws))
         ELSE <<Head(ws)>> \o FilterBoolean(Tail(ws))

Range(s) == {s[i] : i \in 1..Len(s)}

----------------------------------------------------------------------------
(* Environment configuration, read once at module load *)

AudienceValue == "mcp-api"
IssuerValue == "https://tenant.auth0.com/"
JwksValue == "https://tenant.auth0.com/.well-known/jwks.json"

Environments ==
    [NODE_ENV : {Undef, Str("production")},
     ENABLE_BASIC_AUTH_FALLBACK : {Str("true"), Str("false")},
     AUTH_AUDIENCE : {Undef, Str(AudienceValue)},
     AUTH_ISSUER : {Undef, Str(IssuerValue)},
     JWKS_URI : {Undef, Str(JwksValue)},
     BASIC_AUTH_USER : {Undef, Str("admin")},
     BASIC_AUTH_PASS : {Undef, Str("secret")}]

AUTH_AUDIENCE == env.AUTH_AUDIENCE
AUTH_ISSUER == env.AUTH_ISSUER
JWKS_URI == env.JWKS_URI
NODE_ENV == Or(env.NODE_ENV, Str("development"))
BASIC_AUTH_USER == env.BASIC_AUTH_USER
BASIC_AUTH_PASS == env.BASIC_AUTH_PASS

ENABLE_BASIC_AUTH_FALLBACK == StrictEq(env.ENABLE_BASIC_AUTH_FALLBACK, Str("true"))

IsProduction == StrictEq(NODE_ENV, Str("production"))

ProductionSafetyCheckOff == FALSE
\* the production safety check: process.exit(1) when the fallback is on in production
ProductionSafetyCheck == IsProduction /\ ENABLE_BASIC_AUTH_FALLBACK

----------------------------------------------------------------------------
(* Credentials carried by the Authorization header.  The first word of a   *)
(* header is plain text (the scheme); every later word is a credential,    *)
(* kept as what decoding it gives: a compact JWT by its decoded header,    *)
(* payload and signature, a base64 word by the ':'-separated fields of     *)
(* its decoded text.                                                       *)

ClockNow == 1000           \* Math.floor(Date.now() / 1000) when the token is verified
clockTolerance == 10

FullScope == StrW(<<"mcp:tools.exec", "mcp:tools.read">>)
ReadScope == Str("mcp:tools.read")
LegacyScope == Str("mcp:write")
RepeatedScope == StrW(<<"mcp:tools.read", "mcp:tools.read">>)

BaseJwt ==
    [kind |-> "jwt", segments |-> 3, alg |-> "RS256", kid |-> "kid-1", sig |-> "valid",
     sub |-> Str("client-1"), aud |-> Str(AudienceValue), iss |-> Str(IssuerValue),
     exp |-> Num(ClockNow + 3600), nbf |-> Undef, scope |-> FullScope, jti |-> Str("jti-1")]

\* the well-formed token and every token that differs from it in one header,
\* signature or claim field
JwtDeviations ==
    {BaseJwt}
    \cup {[BaseJwt EXCEPT !.segments = 2]}
    \cup {[BaseJwt EXCEPT !.alg = a] : a \in {"HS256", "none"}}
    \cup {[BaseJwt EXCEPT !.sig = s] : s \in {"invalid", "empty"}}
    \cup {[BaseJwt EXCEPT !.kid = "kid-unknown"]}
    \cup {[BaseJwt EXCEPT !.exp = e] :
            e \in {Undef, Num(ClockNow - clockTolerance - 1), Num(ClockNow - clockTolerance),
                   Num(ClockNow - clockTolerance + 1)}}
    \cup {[BaseJwt EXCEPT !.nbf = n] :
            n \in {Num(ClockNow), Num(ClockNow + clockTolerance),
                   Num(ClockNow + clockTolerance + 1)}}
    \cup {[BaseJwt EXCEPT !.sub = v] : v \in {Undef, EmptyStr}}
    \cup {[BaseJwt EXCEPT !.aud = v] :
            v \in {Undef, Str("other-api"), Arr(<<AudienceValue, "other-api">>),
                   Arr(<<"other-api">>)}}
    \cup {[BaseJwt EXCEPT !.iss = v] : v \in {Undef, Str("https://evil.example/")}}
    \cup {[BaseJwt EXCEPT !.jti = Undef]}

\* each deviation with the full scope and with the read scope alone; the
\* well-formed token also without a scope claim, with an array scope claim,
\* with a legacy scope alone and with a scope named twice
Jwts ==
    JwtDeviations
    \cup {[j EXCEPT !.scope = ReadScope] : j \in JwtDeviations}
    \cup {[BaseJwt EXCEPT !.scope = v] : v \in {Undef, Arr(<<"mcp:tools.exec">>)}}
    \cup {[BaseJwt EXCEPT !.scope = v] : v \in {LegacyScope, RepeatedScope}}

EmptyWord == [kind |-> "empty"]
B64(fields) == [kind |-> "b64", fields |-> fields]

BasicWords ==
    {B64(<<"admin", "secret">>), B64(<<"admin", "wrong">>), B64(<<"root", "secret">>),
     B64(<<"admin">>), B64(<<"admin", "secret", "x">>), EmptyWord}

AuthorizationHeaders ==
    {Undef, EmptyStr}
    \cup {StrW(<<"Bearer", j>>) : j \in Jwts}
    \cup {StrW(<<"Basic", b>>) : b \in BasicWords}
    \cup {StrW(<<"Bearer">>), StrW(<<"Basic">>), StrW(<<"Bearer", EmptyWord>>),
          StrW(<<"bearer", BaseJwt>>), StrW(<<"Bearer", BaseJwt, BaseJwt>>),
          StrW(<<"Bearer", B64(<<"admin", "secret">>)>>),
          StrW(<<"Basic", BaseJwt>>)}

\* !word for a credential word: only the empty word is falsy
WordTruthy(word) == word.kind # "empty"

\* Buffer.from(word, 'base64').toString('ascii').split(':')
DecodeCredentials(word) ==
    CASE word.kind = "b64" -> word.fields
      [] word.kind = "empty" -> <<"">>
      [] OTHER -> <<"\\garbage">>

\* token.split('.').length
JwtSegments(word) == IF word.kind = "jwt" THEN word.segments ELSE 1

----------------------------------------------------------------------------
(* Key resolution and token verification *)

\* what jwksClient.getSigningKey(kid, cb) can call back with: the key of a
\* known kid, SigningKeyNotFoundError for an unknown one, or a fetch error
\* (unreachable endpoint, timeout, bad response) for either
JwksOutcomes(kid) ==
    IF kid = "kid-1" THEN {"key", "JwksError"} ELSE {"SigningKeyNotFoundError", "JwksError"}

\* getKey: without a JWKS_URI there is no client and the callback gets an error
\* at once; otherwise the callback gets what the JWKS client answers
getKey(outcome) ==
    IF ~Truthy(JWKS_URI) THEN "JWKS client not configured" ELSE outcome

Msg(text) == [text |-> text, expected |-> Undef, got |-> Undef]
Rejected(message) == [state |-> "rejected", message |-> message, decoded |-> Undef]
Resolved(decoded) == [state |-> "resolved", message |-> Msg(""), decoded |-> decoded]

\* the payload jwt.verify hands to its callback
Payload(token) ==
    [t |-> "object", sub |-> token.sub, aud |-> token.aud, iss |-> token.iss,
     exp |-> token.exp, nbf |-> token.nbf, scope |-> token.scope, jti |-> token.jti]

AlgorithmsOfAnyHeader == {"RS256", "HS256", "none"}
\* algorithms: ['RS256']
PinnedAlgorithms == {"RS256"}

\* options.audience check of jwt.verify: some audience of the token (aud may be
\* an array) equals the expected one; skipped when no audience is configured
JwtAudienceMatch(aud) ==
    \/ ~Truthy(AUTH_AUDIENCE)
    \/ IF aud.t = "array"
       THEN \E i \in 1..Len(aud.a) : StrictEq(Str(aud.a[i]), AUTH_AUDIENCE)
       ELSE StrictEq(aud, AUTH_AUDIENCE)

JwtIssuerMatch(iss) == ~Truthy(AUTH_ISSUER) \/ StrictEq(iss, AUTH_ISSUER)

JwtVerifyErrorWithoutTolerance(token, key) ==
    CASE JwtSegments(token) # 3 -> "JsonWebTokenError"
      [] key # "key" -> "JsonWebTokenError"
      [] token.sig = "empty" -> "JsonWebTokenError"
      [] token.alg \notin PinnedAlgorithms -> "JsonWebTokenError"
      [] token.sig # "valid" -> "JsonWebTokenError"
      [] token.nbf.t # "undefined" /\ token.nbf.t # "number" -> "JsonWebTokenError"
      [] token.nbf.t = "number" /\ token.nbf.n > ClockNow + clockTolerance -> "NotBeforeError"
      [] token.exp.t # "undefined" /\ token.exp.t # "number" -> "JsonWebTokenError"
      [] token.exp.t = "number" /\ ClockNow >= token.exp.n -> "TokenExpiredError"
      [] ~JwtAudienceMatch(token.aud) -> "JsonWebTokenError"
      [] ~JwtIssuerMatch(token.iss) -> "JsonWebTokenError"
      [] OTHER -> "none"

\* jwt.verify(token, getKey, {audience, issuer, algorithms: ['RS256'],
\* clockTolerance: 10, ignoreExpiration: false, ignoreNotBefore: false}, cb):
\* the name of the error handed to cb, or "none"
JwtVerifyError(token, key) ==
    CASE JwtSegments(token) # 3 -> "JsonWebTokenError"                \* jwt malformed
      [] key # "key" -> "JsonWebTokenError"                           \* error in secret or public key callback
      [] token.sig = "empty" -> "JsonWebTokenError"                   \* jwt signature is required
      [] token.alg \notin PinnedAlgorithms -> "JsonWebTokenError"      \* invalid algorithm
      [] token.sig # "valid" -> "JsonWebTokenError"                   \* invalid signature
      [] token.nbf.t # "undefined" /\ token.nbf.t # "number" -> "JsonWebTokenError"
      [] token.nbf.t = "number" /\ token.nbf.n > ClockNow + clockTolerance -> "NotBeforeError"
      [] token.exp.t # "undefined" /\ token.exp.t # "number" -> "JsonWebTokenError"
      [] token.exp.t = "number" /\ ClockNow >= token.exp.n + clockTolerance -> "TokenExpiredError"
      [] ~JwtAudienceMatch(token.aud) -> "JsonWebTokenError"          \* jwt audience invalid
      [] ~JwtIssuerMatch(token.iss) -> "JsonWebTokenError"            \* jwt issuer invalid
      [] OTHER -> "none"

\* whether jwt.verify fails before it asks getKey for the key
JwtFailsBeforeKey(token) == JwtSegments(token) # 3

NoAudiencePin(decoded) == FALSE
\* the audience pin of verifyToken: decoded.aud !== AUTH_AUDIENCE
AudiencePinFails(decoded) == ~StrictEq(decoded.aud, AUTH_AUDIENCE)

\* the issuer pin of verifyToken: decoded.iss !== AUTH_ISSUER
IssuerPinFails(decoded) == ~StrictEq(decoded.iss, AUTH_ISSUER)

VerifyCallbackWithoutRequiredClaims(err, decoded) ==
    CASE err = "TokenExpiredError" -> Rejected(Msg("Token expired"))
      [] err = "JsonWebTokenError" -> Rejected(Msg("Invalid token"))
      [] err = "NotBeforeError" -> Rejected(Msg("Token not yet valid"))
      [] AudiencePinFails(decoded) ->
            Rejected([text |-> "Invalid audience", expected |-> AUTH_AUDIENCE, got |-> decoded.aud])
      [] IssuerPinFails(decoded) ->
            Rejected([text |-> "Invalid issuer", expected |-> AUTH_ISSUER, got |-> decoded.iss])
      [] OTHER -> Resolved(decoded)

\* the callback verifyToken gives jwt.verify: maps the error name to a message,
\* then requires and pins the claims of the decoded payload
VerifyCallback(err, decoded) ==
    CASE err = "TokenExpiredError" -> Rejected(Msg("Token expired"))
      [] err = "JsonWebTokenError" -> Rejected(Msg("Invalid token"))
      [] err = "NotBeforeError" -> Rejected(Msg("Token not yet valid"))
      [] ~Truthy(decoded.sub) -> Rejected(Msg("Token missing required sub claim"))
      [] ~Truthy(decoded.aud) -> Rejected(Msg("Token missing required aud claim"))
      [] ~Truthy(decoded.iss) -> Rejected(Msg("Token missing required iss claim"))
      [] AudiencePinFails(decoded) ->
            Rejected([text |-> "Invalid audience", expected |-> AUTH_AUDIENCE, got |-> decoded.aud])
      [] IssuerPinFails(decoded) ->
            Rejected([text |-> "Invalid issuer", expected |-> AUTH_ISSUER, got |-> decoded.iss])
      [] OTHER -> Resolved(decoded)

\* verifyToken(token), given what the JWKS client answers for the token's kid
verifyToken(token, outcome) ==
    IF IsProduction /\ (~Truthy(AUTH_AUDIENCE) \/ ~Truthy(AUTH_ISSUER) \/ ~Truthy(JWKS_URI))
    THEN Rejected(Msg("Auth configuration incomplete in production mode"))
    ELSE VerifyCallback(JwtVerifyError(token, getKey(outcome)), Payload(token))

\* extractBearerToken(authHeader): the second of exactly two words, the first
\* being 'Bearer'; null otherwise
extractBearerToken(authHeader) ==
    IF ~Truthy(authHeader) THEN EmptyWord
    ELSE IF Len(authHeader.w) # 2 \/ authHeader.w[1] # "Bearer" THEN EmptyWord
         ELSE authHeader.w[2]

\* authHeader.startsWith('Basic ')
StartsWithBasic(authHeader) == Len(authHeader.w) >= 2 /\ authHeader.w[1] = "Basic"

\* verifyBasicAuth(authHeader): [username, password] = credentials.split(':')
verifyBasicAuth(authHeader) ==
    /\ ENABLE_BASIC_AUTH_FALLBACK /\ Truthy(BASIC_AUTH_USER) /\ Truthy(BASIC_AUTH_PASS)
    /\ Truthy(authHeader) /\ StartsWithBasic(authHeader)
    /\ LET credentials == DecodeCredentials(authHeader.w[2])
           username == Str(credentials[1])
           password == IF Len(credentials) >= 2 THEN Str(credentials[2]) ELSE Undef
       IN StrictEq(username, BASIC_AUTH_USER) /\ StrictEq(password, BASIC_AUTH_PASS)

\* decodedToken.scope ? decodedToken.scope.split(' ') : []   ("TypeError" when
\* the scope claim is not a string and so has no split)
SplitScope(scope) ==
    CASE ~Truthy(scope) -> Arr(<<>>)
      [] scope.t = "string" -> Arr(scope.w)
      [] OTHER -> [t |-> "TypeError"]

\* hasRequiredScopes(decodedToken, requiredScopes): "true", "false", or
\* "TypeError" when split is called on a scope claim that is not a string
hasRequiredScopes(decodedToken, requiredScopes) ==
    IF Len(requiredScopes) = 0 THEN "true"
    ELSE LET tokenScopes == SplitScope(decodedToken.scope)
         IN CASE tokenScopes.t = "TypeError" -> "TypeError"
              [] \A i \in 1..Len(requiredScopes) : requiredScopes[i] \in Range(tokenScopes.a) -> "true"
              [] OTHER -> "false"

----------------------------------------------------------------------------
(* Request, response and audit record *)

\* obj.field and obj?.field: undefined when the object lacks the field
Get(obj, field) == IF field \in DOMAIN obj THEN obj[field] ELSE Undef

NoBody == [error |-> "", message |-> Msg("")]
ErrorBody(error, message) == [error |-> error, message |-> message]

UnauthorizedWithDetail(message) ==
    [error |-> "unauthorized", message |-> message, stack |-> "Error: at verifyToken"]
\* the body of every 401 of authenticate: {error: 'unauthorized', message}
Unauthorized(message) == ErrorBody("unauthorized", message)

\* the response: end is the function that res.end is now, originalEnd the
\* function each wrapper found as res.end when it was installed, ended counts
\* the calls of res.end, endThrew says that a call of res.end threw, closed
\* that the client has closed the connection
NewResponse ==
    [statusCode |-> 200, body |-> NoBody, end |-> "original",
     originalEnd |-> [auditLog |-> "original", collectMetrics |-> "original"],
     ended |-> 0, endThrew |-> FALSE, closed |-> FALSE]

\* test-auth-comprehensive.sh as long as it has not been started: PASSED=0
\* and FAILED=0 are what its lines 22 and 23 assign
NoScript ==
    [stage |-> "notStarted", oauth |-> FALSE, world |-> <<>>, at |-> 1,
     PASSED |-> 0, FAILED |-> 0, summary |-> FALSE, status |-> 0]

\* the registry when the process starts
NoMetrics ==
    [activeConnections |-> 0, httpRequests |-> <<>>,
     rateLimitExceeded |-> [sub |-> 0, ip |-> 0]]

\* the wrappers that run when the function end is called, the outermost
\* first: each sets res.end back to the function it found and calls it
RECURSIVE EndChain(_, _)
EndChain(end, originalEnd) ==
    IF end = "original" THEN <<>>
    ELSE <<end>> \o EndChain(originalEnd[end], originalEnd)
NewRequest(authHeader) ==
    [authorization |-> authHeader, user |-> Undef, auth |-> Undef, ip |-> Str("203.0.113.1"),
     xForwardedFor |-> Undef,
     connection |-> [t |-> "object", remoteAddress |-> Str("203.0.113.1")]]

\* req.ip || req.headers['x-forwarded-for'] || req.connection.remoteAddress
\* ("TypeError" when the last operand is reached and there is no req.connection)
ClientIp(request) ==
    IF Truthy(Or(request.ip, request.xForwardedFor))
    THEN Or(request.ip, request.xForwardedFor)
    ELSE IF request.connection.t = "object" THEN request.connection.remoteAddress
         ELSE [t |-> "TypeError"]
NoVerification == [state |-> "none", message |-> Msg(""), decoded |-> Undef]
NoCalls == [next |-> 0, verifyToken |-> 0, scopeNext |-> 0, handler |-> 0]

NoPolicy == [installed |-> FALSE, name |-> "none", required |-> Arr(<<>>), mode |-> "all"]

AuthenticateOptions ==
    [requiredScopes : {<<>>, <<"mcp:tools.exec">>}, optional : BOOLEAN, enforceAuth : BOOLEAN]

CreateAuditLogAssumesJwt(request, statusCode) ==
    LET auth == request.auth
    IN [sub |-> Or(Get(auth, "sub"), Str("anonymous")),
        jti |-> Or(Get(auth, "jti"), Null),
        aud |-> Or(Get(auth, "aud"), Null),
        status |-> statusCode,
        ip |-> ClientIp(request),
        auth_method |-> Or(Get(auth, "auth_method"), Str("jwt"))]

\* createAuditLog(req, res, startTime, bytesIn): the identity and outcome
\* fields of the entry
createAuditLog(request, statusCode) ==
    LET auth == request.auth
    IN [sub |-> Or(Get(auth, "sub"), Str("anonymous")),
        jti |-> Or(Get(auth, "jti"), Null),
        aud |-> Or(Get(auth, "aud"), Null),
        status |-> statusCode,
        ip |-> ClientIp(request),
        auth_method |-> Or(Get(auth, "auth_method"), Str("none"))]

RespondLogsEveryEnd(request, statusCode, body) ==
    /\ res' = [res EXCEPT !.statusCode = statusCode, !.body = body,
                          !.ended = @ + 1, !.end = "original"]
    /\ sent' = IF res.ended = 0 /\ ~res.closed
               THEN Append(sent, [statusCode |-> statusCode, body |-> body])
               ELSE sent
    /\ auditSink' = IF res.end = "auditLog" \/ auditSink # <<>>
                    THEN Append(auditSink, createAuditLog(request, statusCode))
                    ELSE auditSink
    /\ UNCHANGED metrics

\* res.status(code).json(body) on the request as it is now: res.end runs, and
\* with it the wrappers of auditLog and collectMetrics that are installed.
\* Each wrapper restores the end it found and calls it, so the original end
\* runs before any bookkeeping and writes the response out unless the
\* response has ended before or the connection is closed.  Then, from the
\* innermost wrapper outwards, collectMetrics records the request and
\* decrements the gauge, and auditLog builds the audit entry and writes it;
\* when createAuditLog throws, no entry is written, the exception leaves
\* res.end, and a collectMetrics wrapper around auditLog records nothing.
Respond(request, statusCode, body) ==
    LET invoked == EndChain(res.end, res.originalEnd)
        throws == /\ \E i \in 1..Len(invoked) : invoked[i] = "auditLog"
                  /\ ClientIp(request).t = "TypeError"
        recorded == \E i \in 1..Len(invoked) :
                       /\ invoked[i] = "collectMetrics"
                       /\ ~(throws /\ \E j \in (i + 1)..Len(invoked) : invoked[j] = "auditLog")
    IN /\ res' = [res EXCEPT !.statusCode = statusCode, !.body = body,
                             !.ended = @ + 1, !.end = "original",
                             !.endThrew = @ \/ throws]
       /\ sent' = IF res.ended = 0 /\ ~res.closed
                  THEN Append(sent, [statusCode |-> statusCode, body |-> body])
                  ELSE sent
       /\ auditSink' = IF (\E i \in 1..Len(invoked) : invoked[i] = "auditLog") /\ ~throws
                       THEN Append(auditSink, createAuditLog(request, statusCode))
                       ELSE auditSink
       /\ metrics' = IF recorded
                     THEN [metrics EXCEPT
                             !.httpRequests =
                                Append(@, [status |-> statusCode,
                                           sub |-> Or(Get(request.auth, "sub"),
                                                      Str("anonymous"))]),
                             !.activeConnections = @ - 1]
                     ELSE metrics

\* return res.status(code).json(body): the middleware chain ends here
SendAndStop(request, statusCode, body) ==
    /\ Respond(request, statusCode, body)
    /\ pc' = "done"

----------------------------------------------------------------------------
(* Rate limiting: createRateLimiter over express-rate-limit and its memory  *)
(* store, which keeps for every key a hit count and the time its window     *)
(* ends.  Times are in milliseconds.                                        *)

\* createRateLimiter(options): windowMs and maxRequests with their defaults
createRateLimiter(options) ==
    [windowMs |-> IF "windowMs" \in DOMAIN options THEN options.windowMs ELSE 60 * 1000,
     max |-> IF "maxRequests" \in DOMAIN options THEN options.maxRequests ELSE 100]

apiRateLimiter == createRateLimiter([windowMs |-> 60 * 1000, maxRequests |-> 100])
strictRateLimiter == createRateLimiter([windowMs |-> 60 * 1000, maxRequests |-> 10])
heavyRateLimiter == createRateLimiter([windowMs |-> 60 * 1000, maxRequests |-> 5])

\* Math.ceil(windowMs / 1000)
CeilSeconds(ms) == (ms + 999) \div 1000

\* the subjects and the network origins that requests come with
Subjects == {Str("client-1"), Str("client-2"), Str("basic-auth-user"), Str("dev-user")}
Origins == {Str("203.0.113.1"), Str("198.51.100.7")}

\* `sub:${req.auth.sub}` and `ip:${ip}` as pairs of prefix and identifier
SubKey(sub) == [prefix |-> "sub", id |-> sub]
IpKey(ip) == [prefix |-> "ip", id |-> ip]
RateKeys == {SubKey(s) : s \in Subjects} \cup {IpKey(i) : i \in Origins \cup {Undef}}

KeyGeneratorByOrigin(request) == IpKey(Get(request, "ip"))

\* keyGenerator(req): the subject of req.auth when there is one, else the IP
keyGenerator(request) ==
    IF Truthy(request.auth) /\ Truthy(Get(request.auth, "sub"))
    THEN SubKey(request.auth.sub)
    ELSE IpKey(ClientIp(request))

\* a key the store has not seen, or whose entry it has dropped
NoClient == [totalHits |-> 0, resetTime |-> 0]

IncrementWithoutReset(client, now, windowMs) ==
    LET current == IF client.resetTime = 0
                   THEN [totalHits |-> 0, resetTime |-> now + windowMs]
                   ELSE client
    IN [current EXCEPT !.totalHits = @ + 1]

IncrementAfterFirst(client, now, windowMs) ==
    IF client.resetTime <= now
    THEN [totalHits |-> 0, resetTime |-> now + windowMs]
    ELSE [client EXCEPT !.totalHits = @ + 1]

\* store.increment(key): a window that has ended is replaced by a new one
\* that starts now, then the hit is counted
Increment(client, now, windowMs) ==
    LET current == IF client.resetTime <= now
                   THEN [totalHits |-> 0, resetTime |-> now + windowMs]
                   ELSE client
    IN [current EXCEPT !.totalHits = @ + 1]

TooManyRequestsInMilliseconds(windowMs) ==
    [error |-> "rate_limit_exceeded",
     message |-> Msg("Too many requests, please try again later"),
     retry_after |-> windowMs]

\* the body of the 429 that the handler option sends
TooManyRequests(windowMs) ==
    [error |-> "rate_limit_exceeded",
     message |-> Msg("Too many requests, please try again later"),
     retry_after |-> CeilSeconds(windowMs)]

NoLimiter ==
    [windowMs |-> heavyRateLimiter.windowMs, max |-> heavyRateLimiter.max, now |-> 0,
     store |-> [k \in RateKeys |-> NoClient], key |-> IpKey(Undef), requests |-> 0]

LimitReachedOneLater(totalHits, max) == totalHits > max + 1

\* the test the middleware makes on the count that the increment returned
LimitReached(totalHits, max) == totalHits > max

NamedLimitersAllGeneral ==
    [api |-> apiRateLimiter, strict |-> apiRateLimiter, heavy |-> apiRateLimiter]

\* the limiters the module exports, each a rateLimit(...) of its own
NamedLimiters ==
    [api |-> apiRateLimiter, strict |-> strictRateLimiter, heavy |-> heavyRateLimiter]

\* each limiter as rateLimit(...) returns it: its options and a new memory
\* store; with it, how many requests of each key it has received and how
\* many it has let through
NoLimiters ==
    [name \in DOMAIN NamedLimiters |->
       [windowMs |-> NamedLimiters[name].windowMs, max |-> NamedLimiters[name].max,
        store |-> [k \in RateKeys |-> NoClient],
        received |-> [k \in RateKeys |-> 0],
        passed |-> [k \in RateKeys |-> 0]]]

MaxConcurrent == 3      \* requests that can be inside a limiter at once

\* the places for requests inside a limiter, all empty
NoBurst ==
    [slot \in 1..MaxConcurrent |->
       [stage |-> "idle", name |-> "heavy", request |-> NewRequest(Undef), totalHits |-> 0]]

\* the module before any key was asked for: no JWKS client yet
\* (jwksClientInstance = null), nothing fetched from the JWKS endpoint, no
\* verification waiting for a key.  A client has a cache of the keys it has
\* loaded and, for every kid it is loading, the callbacks that wait.
NoJwks ==
    [client |-> [created |-> FALSE,
                 cache |-> [kid \in {"kid-1", "kid-2"} |-> FALSE],
                 loading |-> [kid \in {"kid-1", "kid-2"} |-> {}]],
     fetches |-> [kid \in {"kid-1", "kid-2"} |-> 0],
     inFlight |-> [kid \in {"kid-1", "kid-2"} |-> 0],
     waiter |-> [slot \in 1..MaxConcurrent |->
                   [stage |-> "idle", kid |-> "kid-1", result |-> "none"]]]

GetJwksClientAnew(instance) ==
    IF Truthy(JWKS_URI) THEN [NoJwks.client EXCEPT !.created = TRUE] ELSE instance

\* getJwksClient(): the one client of the module, created at the first call
\* with cache: true
getJwksClient(instance) ==
    IF ~instance.created /\ Truthy(JWKS_URI)
    THEN [NoJwks.client EXCEPT !.created = TRUE]
    ELSE instance

----------------------------------------------------------------------------
(* Startup and the middleware chain *)

NoRoute ==
    [opts |-> [requiredScopes |-> <<>>, optional |-> FALSE, enforceAuth |-> FALSE],
     policy |-> NoPolicy, audited |-> FALSE, limited |-> "none", metered |-> "none"]

\* the auditLog middleware is installed, ahead of authenticate
AuditLogFirst == route.audited

Init ==
    /\ env \in Environments
    /\ proc = "loading"
    /\ route = NoRoute
    /\ pc = "idle"
    /\ req = NewRequest(Undef)
    /\ res = NewResponse
    /\ verif = NoVerification
    /\ auditSink = <<>>
    /\ sent = <<>>
    /\ calls = NoCalls
    /\ limiter = NoLimiter
    /\ limiters = NoLimiters /\ burst = NoBurst /\ jwks = NoJwks /\ metrics = NoMetrics
    /\ script = NoScript

\* the auth module loads: the production safety check ends the process
LoadAuthModule ==
    /\ proc = "loading"
    /\ proc' = IF ProductionSafetyCheck THEN "exited" ELSE "running"
    /\ UNCHANGED <<script, env, route, pc, req, res, verif, auditSink, sent, calls, limiter,
                 limiters, burst, jwks, metrics>>

\* a request arrives for a route app.post(path, authenticate(options), handler),
\* in an application that has or has not installed auditLog ahead of it
Receive ==
    /\ proc = "running"
    /\ pc = "idle"
    /\ \E authHeader \in AuthorizationHeaders, options \in AuthenticateOptions,
          audited \in BOOLEAN :
          /\ req' = NewRequest(authHeader)
          /\ route' = [NoRoute EXCEPT !.opts = options, !.audited = audited]
          /\ pc' = IF audited THEN "auditLog" ELSE "authenticate"
    /\ UNCHANGED <<script, env, proc, res, verif, auditSink, sent, calls, limiter, limiters, burst, jwks, metrics>>

\* the middleware that follows auditLog: the rate limiter when the route has
\* it ahead of authenticate
EntryAfterAudit(r) == IF r.limited = "first" THEN "rateLimit" ELSE "authenticate"

\* the middleware that follows the scope checks: the rate limiter when the
\* route has it behind them, else the handler
AfterScopes == IF route.limited = "last" THEN "rateLimit" ELSE "handler"

AuditLogOverOriginalEnd ==
    /\ pc = "auditLog"
    /\ res' = [res EXCEPT !.end = "auditLog", !.originalEnd.auditLog = "original"]
    /\ pc' = IF route.metered = "last" THEN "collectMetrics" ELSE EntryAfterAudit(route)
    /\ UNCHANGED <<script, env, proc, route, req, verif, auditSink, sent, calls, limiter,
                 limiters, burst, jwks, metrics>>

\* auditLog(): replaces res.end by the logging wrapper and calls next()
AuditLog ==
    /\ pc = "auditLog"
    /\ res' = [res EXCEPT !.end = "auditLog", !.originalEnd.auditLog = res.end]
    /\ pc' = IF route.metered = "last" THEN "collectMetrics" ELSE EntryAfterAudit(route)
    /\ UNCHANGED <<script, env, proc, route, req, verif, auditSink, sent, calls, limiter,
                 limiters, burst, jwks, metrics>>

CollectMetricsWithoutGauge ==
    /\ pc = "collectMetrics"
    /\ res' = [res EXCEPT !.end = "collectMetrics", !.originalEnd.collectMetrics = res.end]
    /\ pc' = IF route.metered = "first" /\ route.audited THEN "auditLog"
             ELSE EntryAfterAudit(route)
    /\ UNCHANGED <<script, env, proc, route, req, verif, auditSink, sent, calls, limiter,
                 limiters, burst, jwks, metrics>>

\* collectMetrics(): increments the gauge of active connections, replaces
\* res.end by the recording wrapper and calls next()
CollectMetrics ==
    /\ pc = "collectMetrics"
    /\ metrics' = [metrics EXCEPT !.activeConnections = @ + 1]
    /\ res' = [res EXCEPT !.end = "collectMetrics", !.originalEnd.collectMetrics = res.end]
    /\ pc' = IF route.metered = "first" /\ route.audited THEN "auditLog"
             ELSE EntryAfterAudit(route)
    /\ UNCHANGED <<script, env, proc, route, req, verif, auditSink, sent, calls, limiter,
                 limiters, burst, jwks>>

DevUser ==
    [t |-> "object", sub |-> Str("dev-user"),
     scope |-> StrW(<<"mcp:tools.exec", "mcp:tools.read", "mcp:admin">>)]
DevAuth ==
    [t |-> "object", sub |-> Str("dev-user"),
     scopes |-> Arr(<<"mcp:tools.exec", "mcp:tools.read", "mcp:admin">>)]
BasicUser ==
    [t |-> "object", sub |-> Str("basic-auth-user"),
     scope |-> StrW(<<"mcp:tools.exec", "mcp:tools.read">>), auth_method |-> Str("basic")]
BasicAuthWithAdmin ==
    [t |-> "object", sub |-> Str("basic-auth-user"),
     scopes |-> Arr(<<"mcp:tools.exec", "mcp:tools.read", "mcp:admin">>),
     auth_method |-> Str("basic")]

BasicAuth ==
    [t |-> "object", sub |-> Str("basic-auth-user"),
     scopes |-> Arr(<<"mcp:tools.exec", "mcp:tools.read">>), auth_method |-> Str("basic")]
\* next() of authenticate: control passes to requireScopes, else to the handler
AuthNext ==
    /\ pc' = IF route.policy.installed THEN "requireScopes" ELSE AfterScopes
    /\ calls' = [calls EXCEPT !.next = @ + 1]

ConfigMissingInProductionOnly ==
    /\ IsProduction
    /\ ~Truthy(AUTH_AUDIENCE) \/ ~Truthy(AUTH_ISSUER) \/ ~Truthy(JWKS_URI)

\* production or enforceAuth, and AUTH_AUDIENCE, AUTH_ISSUER or JWKS_URI missing
ConfigMissing ==
    /\ IsProduction \/ route.opts.enforceAuth
    /\ ~Truthy(AUTH_AUDIENCE) \/ ~Truthy(AUTH_ISSUER) \/ ~Truthy(JWKS_URI)

DevBypassWhateverIssuer ==
    /\ ~route.opts.enforceAuth
    /\ ~IsProduction
    /\ ~ENABLE_BASIC_AUTH_FALLBACK

\* the condition of the development-mode bypass
DevBypass ==
    /\ ~route.opts.enforceAuth
    /\ ~IsProduction
    /\ ~Truthy(AUTH_ISSUER)
    /\ ~ENABLE_BASIC_AUTH_FALLBACK

ConfigMissingBlock ==
    /\ SendAndStop(req, 500, ErrorBody("internal_error", Msg("Authentication not configured")))
    /\ UNCHANGED <<req, verif, calls>>

DevBypassBlock ==
    /\ req' = [req EXCEPT !.user = DevUser, !.auth = DevAuth]
    /\ AuthNext
    /\ UNCHANGED <<res, verif, auditSink, sent, metrics>>

NoHeaderBlockAttachesAnonymous ==
    IF route.opts.optional
    THEN /\ req' = [req EXCEPT !.auth = [t |-> "object", sub |-> Str("anonymous"),
                                          scopes |-> Arr(<<>>), auth_method |-> Str("none")]]
         /\ AuthNext
         /\ UNCHANGED <<res, verif, auditSink, sent, metrics>>
    ELSE /\ SendAndStop(req, 401, Unauthorized(Msg("Missing Authorization header")))
         /\ UNCHANGED <<req, verif, calls>>

\* if (!authHeader): next() on an optional route, 401 otherwise
NoHeaderBlock ==
    IF route.opts.optional
    THEN /\ AuthNext
         /\ UNCHANGED <<req, res, verif, auditSink, sent, metrics>>
    ELSE /\ SendAndStop(req, 401, Unauthorized(Msg("Missing Authorization header")))
         /\ UNCHANGED <<req, verif, calls>>

\* the Basic Auth fallback block
BasicBlock(authHeader) ==
    IF verifyBasicAuth(authHeader)
    THEN /\ req' = [req EXCEPT !.user = BasicUser, !.auth = BasicAuth]
         /\ AuthNext
         /\ UNCHANGED <<res, verif, auditSink, sent, metrics>>
    ELSE /\ SendAndStop(req, 401, Unauthorized(Msg("Invalid Basic Auth credentials")))
         /\ UNCHANGED <<req, verif, calls>>

BadFormatBlockWithoutReturn ==
    /\ SendAndStop(req, 401,
          Unauthorized(Msg("Invalid Authorization header format. Expected: Bearer <token>")))
    /\ calls' = [calls EXCEPT !.next = @ + 1]
    /\ UNCHANGED <<req, verif>>

\* if (!token) after extractBearerToken
BadFormatBlock ==
    /\ SendAndStop(req, 401,
          Unauthorized(Msg("Invalid Authorization header format. Expected: Bearer <token>")))
    /\ UNCHANGED <<req, verif, calls>>

\* await verifyToken(token): the call; jwt.verify asks getKey, and through it
\* the JWKS client, for the key unless it can settle without it
CallVerifyToken(token) ==
    /\ calls' = [calls EXCEPT !.verifyToken = @ + 1]
    /\ IF \/ IsProduction /\ (~Truthy(AUTH_AUDIENCE) \/ ~Truthy(AUTH_ISSUER) \/ ~Truthy(JWKS_URI))
          \/ JwtFailsBeforeKey(token)
          \/ ~Truthy(JWKS_URI)
       THEN /\ verif' = verifyToken(token, "none")
            /\ pc' = "awaitVerify"
       ELSE /\ verif' = [state |-> "pending", message |-> Msg(""), decoded |-> Undef]
            /\ pc' = "getSigningKey"
    /\ UNCHANGED <<req, res, auditSink, sent, metrics>>

\* authenticate(options)(req, res, next) up to its await of verifyToken(token)
Authenticate ==
    /\ pc = "authenticate"
    /\ LET authHeader == req.authorization
           token == extractBearerToken(authHeader)
       IN CASE ConfigMissing -> ConfigMissingBlock
            [] ~ConfigMissing /\ DevBypass -> DevBypassBlock
            [] ~ConfigMissing /\ ~DevBypass /\ ~Truthy(authHeader) -> NoHeaderBlock
            [] ~ConfigMissing /\ ~DevBypass /\ Truthy(authHeader)
                 /\ ENABLE_BASIC_AUTH_FALLBACK /\ StartsWithBasic(authHeader) ->
                 BasicBlock(authHeader)
            [] ~ConfigMissing /\ ~DevBypass /\ Truthy(authHeader)
                 /\ ~(ENABLE_BASIC_AUTH_FALLBACK /\ StartsWithBasic(authHeader))
                 /\ ~WordTruthy(token) ->
                 BadFormatBlock
            [] OTHER -> CallVerifyToken(token)
    /\ UNCHANGED <<script, env, proc, route, limiter, limiters, burst, jwks>>

\* the JWKS client calls back with the key or an error; jwt.verify finishes
\* and the promise of verifyToken settles
GetSigningKeyCallback ==
    /\ pc = "getSigningKey"
    /\ LET token == extractBearerToken(req.authorization)
       IN \E outcome \in JwksOutcomes(token.kid) :
             verif' = verifyToken(token, outcome)
    /\ pc' = "awaitVerify"
    /\ UNCHANGED <<script, env, proc, route, req, res, auditSink, sent, calls, limiter,
                 limiters, burst, jwks, metrics>>

JwtAuthFirstScopeOnly(decoded) ==
    LET split == SplitScope(decoded.scope)
    IN [t |-> "object", sub |-> decoded.sub,
        scopes |-> IF split.t = "array" /\ Len(split.a) > 1 THEN Arr(<<split.a[1]>>) ELSE split,
        iss |-> decoded.iss, aud |-> decoded.aud, exp |-> decoded.exp,
        jti |-> Or(decoded.jti, Null), auth_method |-> Str("jwt")]

\* req.auth as authenticate builds it from the decoded payload
JwtAuth(decoded) ==
    [t |-> "object", sub |-> decoded.sub, scopes |-> SplitScope(decoded.scope),
     iss |-> decoded.iss, aud |-> decoded.aud, exp |-> decoded.exp,
     jti |-> Or(decoded.jti, Null), auth_method |-> Str("jwt")]

CatchBlockCallsNext(message) ==
    /\ AuthNext
    /\ UNCHANGED <<req, res, auditSink, sent, metrics>>

\* catch (err): 401 with err.message
CatchBlock(message) ==
    /\ SendAndStop(req, 401, Unauthorized(message))
    /\ UNCHANGED <<req, calls>>

ForbiddenBlockWithHeldAndMissing ==
    /\ SendAndStop(req, 403,
           [error |-> "forbidden", message |-> Msg("Missing required scopes"),
            required_scopes |-> route.opts.requiredScopes,
            user_scopes |-> SplitScope(verif.decoded.scope).a,
            missing_scopes |-> SelectSeq(route.opts.requiredScopes,
                LAMBDA scope : scope \notin Range(SplitScope(verif.decoded.scope).a))])
    /\ UNCHANGED <<req, calls>>

\* the 403 of the scope check of authenticate
ForbiddenBlock ==
    /\ SendAndStop(req, 403, [error |-> "forbidden", message |-> Msg("Missing required scopes"),
                              required_scopes |-> route.opts.requiredScopes])
    /\ UNCHANGED <<req, calls>>

\* req.user = decoded; req.auth = {...}; next()
AttachBlock(decoded) ==
    /\ req' = [req EXCEPT !.user = decoded, !.auth = JwtAuth(decoded)]
    /\ AuthNext
    /\ UNCHANGED <<res, auditSink, sent, metrics>>

\* req.user = decoded is done, then decoded.scope.split throws inside the
\* req.auth literal and the catch block answers
AttachThrowsBlock(decoded) ==
    /\ req' = [req EXCEPT !.user = decoded]
    /\ SendAndStop(req', 401, Unauthorized(Msg("decoded.scope.split is not a function")))
    /\ UNCHANGED calls

AfterAwaitScopeCheckFirst(verification, token) ==
    CASE token.kind = "jwt"
         /\ hasRequiredScopes(Payload(token), route.opts.requiredScopes) = "false" -> "forbidden"
      [] verification.state = "rejected" -> "catch"
      [] hasRequiredScopes(verification.decoded, route.opts.requiredScopes) = "TypeError" ->
            "catchTypeError"
      [] SplitScope(verification.decoded.scope).t = "TypeError" -> "attachThrows"
      [] OTHER -> "attach"

\* which block of authenticate runs once the promise of verifyToken has
\* settled: the catch block on a rejection or on an exception of the try block,
\* else the 403 of the scope check, else the attach
AfterAwait(verification, token) ==
    CASE verification.state = "rejected" -> "catch"
      [] hasRequiredScopes(verification.decoded, route.opts.requiredScopes) = "TypeError" ->
            "catchTypeError"
      [] hasRequiredScopes(verification.decoded, route.opts.requiredScopes) = "false" -> "forbidden"
      [] SplitScope(verification.decoded.scope).t = "TypeError" -> "attachThrows"
      [] OTHER -> "attach"

\* authenticate after its await
AuthenticateResume ==
    /\ pc = "awaitVerify"
    /\ LET branch == AfterAwait(verif, extractBearerToken(req.authorization))
       IN CASE branch = "catch" -> CatchBlock(verif.message)
            [] branch = "catchTypeError" ->
                  CatchBlock(Msg("decoded.scope.split is not a function"))
            [] branch = "forbidden" -> ForbiddenBlock
            [] branch = "attachThrows" -> AttachThrowsBlock(verif.decoded)
            [] OTHER -> AttachBlock(verif.decoded)
    /\ UNCHANGED <<script, env, proc, route, verif, limiter, limiters, burst, jwks>>

\* the route handler: the business logic answers 200
Handler ==
    /\ pc = "handler"
    /\ SendAndStop(req, 200, [error |-> "", message |-> Msg("ok")])
    /\ calls' = [calls EXCEPT !.handler = @ + 1]
    /\ UNCHANGED <<script, env, proc, route, req, verif, limiter, limiters, burst, jwks>>

Next ==
    \/ LoadAuthModule
    \/ Receive
    \/ AuditLog
    \/ Authenticate
    \/ GetSigningKeyCallback
    \/ AuthenticateResume
    \/ Handler

Spec == Init /\ [][Next]_vars

\* the event loop runs the middleware of a dispatched request, and the JWKS
\* client calls back with a key, an error or its timeout
SpecFair ==
    /\ Spec
    /\ WF_vars(Authenticate)
    /\ WF_vars(GetSigningKeyCallback)
    /\ WF_vars(AuthenticateResume)

----------------------------------------------------------------------------
(* Scope helpers and the requireScopes middleware *)

\* parseScopes(scopes): [] for a falsy value, an array as it is, a string
\* split on spaces without the empty words, [] for anything else
parseScopes(scopes) ==
    CASE ~Truthy(scopes) -> <<>>
      [] scopes.t = "array" -> scopes.a
      [] scopes.t = "string" -> FilterBoolean(scopes.w)
      [] OTHER -> <<>>

IncludesAtFront(array, x) == Len(array) > 0 /\ array[1] = x

\* array.includes(x)
Includes(array, x) == \E i \in 1..Len(array) : array[i] = x

HasAllScopesFirstOnly(userScopes, requiredScopes) ==
    LET userScopeArray == parseScopes(userScopes)
        requiredScopeArray == parseScopes(requiredScopes)
    IN \/ Len(requiredScopeArray) = 0
       \/ Includes(userScopeArray, requiredScopeArray[1])

\* hasAllScopes(userScopes, requiredScopes)
hasAllScopes(userScopes, requiredScopes) ==
    LET userScopeArray == parseScopes(userScopes)
        requiredScopeArray == parseScopes(requiredScopes)
    IN \/ Len(requiredScopeArray) = 0
       \/ \A i \in 1..Len(requiredScopeArray) : Includes(userScopeArray, requiredScopeArray[i])

HasAnyScopeEmptyDenies(userScopes, requiredScopes) ==
    LET userScopeArray == parseScopes(userScopes)
        requiredScopeArray == parseScopes(requiredScopes)
    IN \E i \in 1..Len(requiredScopeArray) : Includes(userScopeArray, requiredScopeArray[i])

\* hasAnyScope(userScopes, requiredScopes)
hasAnyScope(userScopes, requiredScopes) ==
    LET userScopeArray == parseScopes(userScopes)
        requiredScopeArray == parseScopes(requiredScopes)
    IN \/ Len(requiredScopeArray) = 0
       \/ \E i \in 1..Len(requiredScopeArray) : Includes(userScopeArray, requiredScopeArray[i])

\* getMissingScopes(userScopes, requiredScopes): requiredScopeArray.filter(...)
getMissingScopes(userScopes, requiredScopes) ==
    LET userScopeArray == parseScopes(userScopes)
        requiredScopeArray == parseScopes(requiredScopes)
    IN SelectSeq(requiredScopeArray, LAMBDA scope : ~Includes(userScopeArray, scope))

\* req.user?.scope || req.auth?.scopes || req.user?.scopes || ''
UserScopes(request) ==
    Or(Get(request.user, "scope"),
       Or(Get(request.auth, "scopes"), Or(Get(request.user, "scopes"), EmptyStr)))

\* requireScopes(requiredScopes, {mode})(req, res, next)
RequireScopes ==
    /\ pc = "requireScopes"
    /\ LET requiredScopes == route.policy.required
           mode == route.policy.mode
           userScopes == UserScopes(req)
           hasRequired == IF mode = "any" THEN hasAnyScope(userScopes, requiredScopes)
                          ELSE hasAllScopes(userScopes, requiredScopes)
       IN CASE ~Truthy(req.user) /\ ~Truthy(req.auth) ->
                 /\ SendAndStop(req, 401, ErrorBody("unauthorized", Msg("Authentication required")))
                 /\ UNCHANGED calls
            [] (Truthy(req.user) \/ Truthy(req.auth)) /\ ~hasRequired ->
                 /\ SendAndStop(req, 403,
                        [error |-> "forbidden",
                         message |-> Msg(IF mode = "all" THEN "Missing required scopes"
                                         ELSE "Missing required any scope"),
                         required_scopes |-> parseScopes(requiredScopes),
                         user_scopes |-> parseScopes(userScopes),
                         missing_scopes |-> getMissingScopes(userScopes, requiredScopes)])
                 /\ UNCHANGED calls
            [] OTHER ->
                 /\ pc' = AfterScopes
                 /\ calls' = [calls EXCEPT !.scopeNext = @ + 1]
                 /\ UNCHANGED <<res, auditSink, sent, metrics>>
    /\ UNCHANGED <<script, env, proc, route, req, verif, limiter, limiters, burst, jwks>>

(* The scope check on its own: a request that an earlier middleware has     *)
(* given any identity, on a route with any scope policy.                    *)

MaxScopes == 2        \* longest scope list, held or required, that is drawn

\* MCP_SCOPES: the minimal scopes and the deprecated names
MCP_SCOPES ==
    [TOOLS_READ |-> "mcp:tools.read", TOOLS_EXEC |-> "mcp:tools.exec", ADMIN |-> "mcp:admin",
     SEARCH |-> "mcp:search", FETCH |-> "mcp:fetch", READ |-> "mcp:read",
     PROCESS |-> "mcp:process", WRITE |-> "mcp:write", TOOLS |-> "mcp:tools",
     TOOLS_CALL |-> "mcp:tools:call"]

\* requireRead(): requireScopes([...], {mode: 'any'})
requireRead ==
    [installed |-> TRUE, name |-> "requireRead", mode |-> "any",
     required |-> Arr(<<MCP_SCOPES.TOOLS_READ, MCP_SCOPES.ADMIN, MCP_SCOPES.READ,
                        MCP_SCOPES.SEARCH, MCP_SCOPES.FETCH>>)]

RequireToolsExecWithoutAdmin ==
    [installed |-> TRUE, name |-> "requireToolsExec", mode |-> "any",
     required |-> Arr(<<MCP_SCOPES.TOOLS_EXEC, MCP_SCOPES.TOOLS, MCP_SCOPES.TOOLS_CALL,
                        MCP_SCOPES.WRITE, MCP_SCOPES.PROCESS>>)]

\* requireToolsExec(): requireScopes([...], {mode: 'any'})
requireToolsExec ==
    [installed |-> TRUE, name |-> "requireToolsExec", mode |-> "any",
     required |-> Arr(<<MCP_SCOPES.TOOLS_EXEC, MCP_SCOPES.ADMIN, MCP_SCOPES.TOOLS,
                        MCP_SCOPES.TOOLS_CALL, MCP_SCOPES.WRITE, MCP_SCOPES.PROCESS>>)]

RequireAdminOrRead ==
    [installed |-> TRUE, name |-> "requireAdmin", mode |-> "any",
     required |-> Arr(<<MCP_SCOPES.ADMIN, MCP_SCOPES.TOOLS_READ>>)]

\* requireAdmin(): requireScopes([MCP_SCOPES.ADMIN])
requireAdmin ==
    [installed |-> TRUE, name |-> "requireAdmin", mode |-> "all",
     required |-> Arr(<<MCP_SCOPES.ADMIN>>)]

\* the scope names that drawn scope lists are made of: the minimal scopes, a
\* legacy name for tool execution and a legacy name for reading
ScopeNames ==
    {MCP_SCOPES.TOOLS_READ, MCP_SCOPES.TOOLS_EXEC, MCP_SCOPES.ADMIN,
     MCP_SCOPES.WRITE, MCP_SCOPES.READ}

SeqsUpTo(S, n) == UNION {[1..k -> S] : k \in 0..n}

\* a scope list as an array, as a space-separated string (with the empty
\* words of doubled, leading or trailing spaces), or absent
ScopeValues ==
    {Undef}
    \cup {Arr(a) : a \in SeqsUpTo(ScopeNames, MaxScopes)}
    \cup {StrW(w) : w \in SeqsUpTo(ScopeNames \cup {""}, MaxScopes) \ {<<>>}}

Principals ==
    {[user |-> Undef, auth |-> Undef]}
    \cup {[user |-> [t |-> "object", sub |-> Str("client-1"), scope |-> v], auth |-> Undef] :
            v \in ScopeValues}
    \cup {[user |-> [t |-> "object", sub |-> Str("client-1"), scopes |-> v], auth |-> Undef] :
            v \in ScopeValues}
    \cup {[user |-> Undef, auth |-> [t |-> "object", sub |-> Str("client-1"), scopes |-> v]] :
            v \in ScopeValues}

\* requireScopes(requiredScopes, {mode}) with any scope list and either mode
Policies ==
    [installed : {TRUE}, name : {"requireScopes"}, required : ScopeValues, mode : {"all", "any"}]
    \cup {requireRead, requireToolsExec, requireAdmin}

ConfiguredDevelopment ==
    [NODE_ENV |-> Undef, ENABLE_BASIC_AUTH_FALLBACK |-> Str("false"),
     AUTH_AUDIENCE |-> Str(AudienceValue), AUTH_ISSUER |-> Str(IssuerValue),
     JWKS_URI |-> Str(JwksValue), BASIC_AUTH_USER |-> Str("admin"),
     BASIC_AUTH_PASS |-> Str("secret")]

InitScopes ==
    /\ env = ConfiguredDevelopment
    /\ proc = "running"
    /\ \E policy \in Policies : route = [NoRoute EXCEPT !.policy = policy]
    /\ pc = "requireScopes"
    /\ \E p \in Principals : req = [NewRequest(Undef) EXCEPT !.user = p.user, !.auth = p.auth]
    /\ res = NewResponse
    /\ verif = NoVerification
    /\ auditSink = <<>>
    /\ sent = <<>>
    /\ calls = NoCalls
    /\ limiter = NoLimiter
    /\ limiters = NoLimiters /\ burst = NoBurst /\ jwks = NoJwks /\ metrics = NoMetrics
    /\ script = NoScript

NextScopes ==
    \/ RequireScopes
    \/ Handler

SpecScopes == InitScopes /\ [][NextScopes]_vars

(* The Basic fallback in front of a scope preset: a development server with  *)
(* the fallback switched on, a route app.post(path, authenticate(options),   *)
(* preset, handler), and a request with a Basic header or none.              *)

InitBasic ==
    /\ env \in {e \in Environments :
                  e.NODE_ENV = Undef /\ e.ENABLE_BASIC_AUTH_FALLBACK = Str("true")}
    /\ proc = "running"
    /\ \E options \in AuthenticateOptions,
          policy \in {requireRead, requireToolsExec, requireAdmin} :
          route = [NoRoute EXCEPT !.opts = options, !.policy = policy]
    /\ pc = "authenticate"
    /\ \E authHeader \in {Undef} \cup {StrW(<<"Basic", b>>) : b \in BasicWords} :
          req = NewRequest(authHeader)
    /\ res = NewResponse
    /\ verif = NoVerification
    /\ auditSink = <<>>
    /\ sent = <<>>
    /\ calls = NoCalls
    /\ limiter = NoLimiter
    /\ limiters = NoLimiters /\ burst = NoBurst /\ jwks = NoJwks /\ metrics = NoMetrics
    /\ script = NoScript

NextBasic ==
    \/ Authenticate
    \/ RequireScopes
    \/ Handler

SpecBasic == InitBasic /\ [][NextBasic]_vars

----------------------------------------------------------------------------
(* Several requests, one after the other, to a configured development       *)
(* server with and without the Basic fallback: what a client can compare.   *)

MaxRequests == 2

InitPair ==
    /\ env \in {ConfiguredDevelopment,
                [ConfiguredDevelopment EXCEPT !.ENABLE_BASIC_AUTH_FALLBACK = Str("true")]}
    /\ proc = "loading"
    /\ route = NoRoute
    /\ pc = "idle"
    /\ req = NewRequest(Undef)
    /\ res = NewResponse
    /\ verif = NoVerification
    /\ auditSink = <<>>
    /\ sent = <<>>
    /\ calls = NoCalls
    /\ limiter = NoLimiter
    /\ limiters = NoLimiters /\ burst = NoBurst /\ jwks = NoJwks /\ metrics = NoMetrics
    /\ script = NoScript

\* the response is out; the server waits for the next request
NextRequest ==
    /\ pc = "done"
    /\ Len(sent) < MaxRequests
    /\ pc' = "idle"
    /\ req' = NewRequest(Undef)
    /\ res' = NewResponse
    /\ verif' = NoVerification
    /\ calls' = NoCalls
    /\ route' = NoRoute
    /\ UNCHANGED <<script, env, proc, auditSink, sent, limiter, limiters, burst, jwks, metrics>>

NextPair ==
    \/ Next
    \/ NextRequest

SpecPair == InitPair /\ [][NextPair]_vars

----------------------------------------------------------------------------
(* The rate limiter in the chain *)

\* the middleware that createRateLimiter returns: the key of the request, the
\* hit counted in the store, then 429 from the handler option when the count
\* exceeds max, else next()
RateLimit ==
    /\ pc = "rateLimit"
    /\ LET key == keyGenerator(req)
           client == Increment(limiter.store[key], limiter.now, limiter.windowMs)
       IN /\ limiter' = [limiter EXCEPT !.store[key] = client, !.key = key]
          /\ IF LimitReached(client.totalHits, limiter.max)
             THEN SendAndStop(req, 429, TooManyRequests(limiter.windowMs))
             ELSE /\ pc' = IF route.limited = "first" THEN "authenticate" ELSE "handler"
                  /\ UNCHANGED <<res, auditSink, sent, metrics>>
    /\ UNCHANGED <<script, env, proc, route, req, verif, calls, limiters, burst, jwks>>

(* One request through the whole chain of a configured development server:  *)
(* auditLog, the rate limiter ahead of authenticate or behind the scope     *)
(* checks, authenticate, requireScopes, the handler.                        *)

GatewayJwts ==
    {BaseJwt, [BaseJwt EXCEPT !.sub = Str("client-2")],
     [BaseJwt EXCEPT !.aud = Str("other-api")]}
    \cup {[BaseJwt EXCEPT !.scope = v] :
            v \in {ReadScope, LegacyScope, RepeatedScope, Str(MCP_SCOPES.ADMIN),
                   Str(MCP_SCOPES.READ)}}

GatewayHeaders == {Undef} \cup {StrW(<<"Bearer", j>>) : j \in GatewayJwts}

GatewayOptions ==
    [requiredScopes : {<<>>, <<MCP_SCOPES.TOOLS_EXEC>>}, optional : {FALSE}, enforceAuth : BOOLEAN]

GatewayPolicies ==
    {NoPolicy, requireRead, requireToolsExec, requireAdmin}
    \cup [installed : {TRUE}, name : {"requireScopes"}, mode : {"all"},
          required : {Arr(<<MCP_SCOPES.TOOLS_EXEC>>), Arr(<<MCP_SCOPES.TOOLS_READ>>)}]

\* a development server, configured or with JWKS_URI or AUTH_ISSUER left out,
\* whose limiter has an empty store or one in which every key has used up
\* its window
InitGateway ==
    /\ env \in {ConfiguredDevelopment, [ConfiguredDevelopment EXCEPT !.JWKS_URI = Undef],
                [ConfiguredDevelopment EXCEPT !.AUTH_ISSUER = Undef]}
    /\ proc = "running"
    /\ route = NoRoute
    /\ pc = "idle"
    /\ req = NewRequest(Undef)
    /\ res = NewResponse
    /\ verif = NoVerification
    /\ auditSink = <<>>
    /\ sent = <<>>
    /\ calls = NoCalls
    /\ \E preset \in {apiRateLimiter, strictRateLimiter, heavyRateLimiter} :
          \E used \in {NoClient, [totalHits |-> preset.max, resetTime |-> preset.windowMs]} :
             limiter = [NoLimiter EXCEPT !.windowMs = preset.windowMs, !.max = preset.max,
                                         !.store = [k \in RateKeys |-> used]]
    /\ limiters = NoLimiters /\ burst = NoBurst /\ jwks = NoJwks /\ metrics = NoMetrics
    /\ script = NoScript

\* a request arrives for a route
\* app.post(path, [limiter,] authenticate(options), [requireScopes(...),] [limiter,] handler)
ReceiveGateway ==
    /\ pc = "idle"
    /\ sent = <<>>
    /\ \E authHeader \in GatewayHeaders, options \in GatewayOptions, policy \in GatewayPolicies,
          limited \in {"first", "last"}, audited \in BOOLEAN, ip \in Origins :
          LET r == [opts |-> options, policy |-> policy, audited |-> audited,
                    limited |-> limited, metered |-> "none"]
          IN /\ req' = [NewRequest(authHeader) EXCEPT !.ip = ip]
             /\ route' = r
             /\ pc' = IF audited THEN "auditLog" ELSE EntryAfterAudit(r)
    /\ UNCHANGED <<script, env, proc, res, verif, auditSink, sent, calls, limiter, limiters, burst, jwks, metrics>>

MaxEnds == 2        \* calls of res.end on one response

\* the client closes the connection while the request is in the chain; no
\* middleware listens for it
ConnectionCloses ==
    /\ pc \notin {"idle", "done"}
    /\ ~res.closed
    /\ res' = [res EXCEPT !.closed = TRUE]
    /\ UNCHANGED <<script, env, proc, route, pc, req, verif, auditSink, sent, calls, limiter,
                   limiters, burst, jwks, metrics>>

\* the handler finds the connection closed and abandons the response: it
\* returns without calling res.end
HandlerAbandons ==
    /\ pc = "handler"
    /\ res.closed
    /\ pc' = "done"
    /\ calls' = [calls EXCEPT !.handler = @ + 1]
    /\ UNCHANGED <<script, env, proc, route, req, res, verif, auditSink, sent, limiter,
                   limiters, burst, jwks, metrics>>

\* res.end is called again on the response that has ended
EndAgain ==
    /\ pc = "done"
    /\ res.ended \in 1..(MaxEnds - 1)
    /\ Respond(req, res.statusCode, res.body)
    /\ UNCHANGED <<script, env, proc, route, pc, req, verif, calls, limiter, limiters, burst, jwks>>

NextGateway ==
    \/ ReceiveGateway
    \/ AuditLog
    \/ RateLimit
    \/ Authenticate
    \/ GetSigningKeyCallback
    \/ AuthenticateResume
    \/ RequireScopes
    \/ Handler
    \/ ConnectionCloses
    \/ HandlerAbandons
    \/ EndAgain

SpecGateway == InitGateway /\ [][NextGateway]_vars

(* Requests as the audit entry reads them: the address the framework gives *)
(* the request, the x-forwarded-for header and the connection object, each *)
(* there or not.                                                            *)

RequestShapes ==
    [ip : {Undef, Str("203.0.113.1")},
     xForwardedFor : {Undef, Str("198.51.100.7")},
     connection : {Undef, [t |-> "object", remoteAddress |-> Str("203.0.113.1")],
                   [t |-> "object", remoteAddress |-> Undef]}]

\* a request arrives for a route without a limiter, in an application that
\* has installed auditLog or not, and collectMetrics ahead of it, behind it
\* or not
\* app.post(path, authenticate(options), [requireScopes(...),] handler)
ReceiveShaped ==
    /\ pc = "idle"
    /\ sent = <<>>
    /\ \E authHeader \in GatewayHeaders, options \in GatewayOptions,
          policy \in {NoPolicy, requireToolsExec}, audited \in BOOLEAN,
          metered \in {"none", "first", "last"}, shape \in RequestShapes :
          /\ req' = [NewRequest(authHeader) EXCEPT !.ip = shape.ip,
                                                   !.xForwardedFor = shape.xForwardedFor,
                                                   !.connection = shape.connection]
          /\ route' = [NoRoute EXCEPT !.opts = options, !.policy = policy,
                                      !.audited = audited, !.metered = metered]
          /\ pc' = IF metered = "first" \/ (metered = "last" /\ ~audited)
                   THEN "collectMetrics"
                   ELSE IF audited THEN "auditLog" ELSE "authenticate"
    /\ UNCHANGED <<script, env, proc, res, verif, auditSink, sent, calls, limiter, limiters, burst, jwks, metrics>>

NextAudit ==
    \/ ReceiveShaped
    \/ CollectMetrics
    \/ AuditLog
    \/ Authenticate
    \/ GetSigningKeyCallback
    \/ AuthenticateResume
    \/ RequireScopes
    \/ Handler
    \/ EndAgain

SpecAudit == InitGateway /\ [][NextAudit]_vars

(* The rate limiter on its own, with the options of heavyRateLimiter:        *)
(* requests that carry the identity an earlier middleware gave them, or     *)
(* none, one after the other as time passes.                                *)

MaxOverLimit == 3       \* requests sent beyond the maximum of the limiter
MaxClock == 120000      \* the clock stops here

\* the clock advances to just before or to exactly a window's length later
TickSteps == {59 * 1000, 60 * 1000}

RateIdentities ==
    {Undef}
    \cup {[t |-> "object", sub |-> s, scopes |-> Arr(<<>>), auth_method |-> Str("jwt")] :
            s \in {Str("client-1"), Str("client-2")}}

InitRate ==
    /\ env = ConfiguredDevelopment
    /\ proc = "running"
    /\ route = NoRoute
    /\ pc = "idle"
    /\ req = NewRequest(Undef)
    /\ res = NewResponse
    /\ verif = NoVerification
    /\ auditSink = <<>>
    /\ sent = <<>>
    /\ calls = NoCalls
    /\ limiter = NoLimiter
    /\ limiters = NoLimiters /\ burst = NoBurst /\ jwks = NoJwks /\ metrics = NoMetrics
    /\ script = NoScript

\* a request arrives at the limiter of a route app.post(path, limiter, handler)
ReceiveIdentified ==
    /\ pc = "idle"
    /\ limiter.requests < limiter.max + MaxOverLimit
    /\ \E identity \in RateIdentities, ip \in Origins :
          req' = [NewRequest(Undef) EXCEPT !.auth = identity, !.ip = ip]
    /\ route' = [NoRoute EXCEPT !.limited = "last"]
    /\ pc' = "rateLimit"
    /\ limiter' = [limiter EXCEPT !.requests = @ + 1]
    /\ UNCHANGED <<script, env, proc, res, verif, auditSink, sent, calls, limiters, burst, jwks, metrics>>

\* time passes between two requests
Tick ==
    /\ pc = "idle"
    /\ \E step \in TickSteps :
          /\ limiter.now + step <= MaxClock
          /\ limiter' = [limiter EXCEPT !.now = @ + step]
    /\ UNCHANGED <<script, env, proc, route, pc, req, res, verif, auditSink, sent, calls,
                 limiters, burst, jwks, metrics>>

\* the response is out; the limiter keeps its store for the next request
NextLimited ==
    /\ pc = "done"
    /\ pc' = "idle"
    /\ req' = NewRequest(Undef)
    /\ res' = NewResponse
    /\ calls' = NoCalls
    /\ route' = NoRoute
    /\ sent' = <<>>
    /\ UNCHANGED <<script, env, proc, verif, auditSink, limiter, limiters, burst, jwks, metrics>>

NextRate ==
    \/ ReceiveIdentified
    \/ RateLimit
    \/ Handler
    \/ Tick
    \/ NextLimited

SpecRate == InitRate /\ [][NextRate]_vars

(* Verifications that ask for signing keys at the same time.  getKey hands *)
(* the kid of the token to the one JWKS client; the client, created with    *)
(* cache: true, answers from its cache, or adds the callback to the load of *)
(* that kid that is under way, or starts a load, which fetches the key set  *)
(* from the JWKS endpoint.                                                  *)

MaxFetches == 2         \* fetches of one kid from the JWKS endpoint

\* getKey(header, callback) of a verification
GetSigningKey ==
    /\ \E slot \in DOMAIN jwks.waiter, kid \in DOMAIN jwks.fetches :
          LET client == getJwksClient(jwks.client)
              asked == [jwks EXCEPT !.client = client, !.waiter[slot].kid = kid]
          IN /\ jwks.waiter[slot].stage # "waiting"
             /\ jwks.fetches[kid] < MaxFetches \/ client.cache[kid] \/ client.loading[kid] # {}
             /\ jwks' =
                  IF ~client.created
                  THEN [asked EXCEPT !.waiter[slot].stage = "called",
                                     !.waiter[slot].result = getKey("none")]
                  ELSE IF client.cache[kid]
                  THEN [asked EXCEPT !.waiter[slot].stage = "called",
                                     !.waiter[slot].result = "key"]
                  ELSE IF client.loading[kid] # {}
                  THEN [asked EXCEPT !.waiter[slot].stage = "waiting",
                                     !.waiter[slot].result = "none",
                                     !.client.loading[kid] = @ \cup {slot}]
                  ELSE [asked EXCEPT !.waiter[slot].stage = "waiting",
                                     !.waiter[slot].result = "none",
                                     !.client.loading[kid] = {slot},
                                     !.fetches[kid] = @ + 1,
                                     !.inFlight[kid] = @ + 1]
    /\ UNCHANGED <<script, env, proc, route, pc, req, res, verif, auditSink, sent, calls, limiter,
                   limiters, burst, metrics>>

\* a fetch of the key set ends, with the key set or with an error: every
\* callback that waits for the kid is called with the outcome, and a key
\* that was found is kept in the cache
JwksAnswers ==
    /\ \E kid \in DOMAIN jwks.fetches :
          /\ jwks.inFlight[kid] > 0
          /\ \E outcome \in JwksOutcomes(kid) :
                jwks' = [jwks EXCEPT
                           !.inFlight[kid] = @ - 1,
                           !.client.loading[kid] = {},
                           !.client.cache[kid] = (outcome = "key"),
                           !.waiter = [slot \in DOMAIN jwks.waiter |->
                                         IF slot \in jwks.client.loading[kid]
                                         THEN [stage |-> "called", kid |-> kid,
                                               result |-> getKey(outcome)]
                                         ELSE @[slot]]]
    /\ UNCHANGED <<script, env, proc, route, pc, req, res, verif, auditSink, sent, calls, limiter,
                   limiters, burst, metrics>>

\* cacheMaxAge has passed since a key was loaded: the cache drops it
CacheEntryExpires ==
    /\ \E kid \in DOMAIN jwks.fetches :
          /\ jwks.client.cache[kid]
          /\ jwks' = [jwks EXCEPT !.client.cache[kid] = FALSE]
    /\ UNCHANGED <<script, env, proc, route, pc, req, res, verif, auditSink, sent, calls, limiter,
                   limiters, burst, metrics>>

NextKeys ==
    \/ GetSigningKey
    \/ JwksAnswers
    \/ CacheEntryExpires

SpecKeys == InitRate /\ [][NextKeys]_vars

(* Requests inside a limiter at the same time.  The middleware is an async  *)
(* function: it awaits the key, then the increment of the store, then makes *)
(* its test; between two awaits the steps of other requests can run.  The   *)
(* increment itself runs to its end without a break.                        *)

\* a request with the identity authenticate gave it enters a limiter: when
\* requests are served one at a time, any of the three named limiters; when
\* several are inside together, heavyRateLimiter
Arrive ==
    \E slot \in DOMAIN burst,
       name \in IF DOMAIN burst = {1} THEN DOMAIN NamedLimiters ELSE {"heavy"} :
       LET request == [NewRequest(Undef) EXCEPT
                          !.auth = [t |-> "object", sub |-> Str("client-1"),
                                    scopes |-> Arr(<<>>), auth_method |-> Str("jwt")]]
           key == keyGenerator(request)
       IN /\ burst[slot].stage = "idle"
          /\ \A s \in 1..(slot - 1) : burst[s].stage # "idle"
          /\ limiters[name].received[key] < limiters[name].max + MaxOverLimit
          /\ burst' = [burst EXCEPT ![slot] = [stage |-> "arrived", name |-> name,
                                               request |-> request, totalHits |-> 0]]
          /\ limiters' = [limiters EXCEPT ![name].received[key] = @ + 1]
          /\ UNCHANGED <<script, env, proc, route, pc, req, res, verif, auditSink, sent, calls,
                         limiter, jwks, metrics>>

\* await store.increment(key): the hit is counted and the count handed back
Count ==
    \E slot \in DOMAIN burst :
       /\ burst[slot].stage = "arrived"
       /\ LET name == burst[slot].name
              key == keyGenerator(burst[slot].request)
              client == Increment(limiters[name].store[key], limiter.now,
                                  limiters[name].windowMs)
          IN /\ limiters' = [limiters EXCEPT ![name].store[key] = client]
             /\ burst' = [burst EXCEPT ![slot].stage = "counted",
                                       ![slot].totalHits = client.totalHits]
       /\ UNCHANGED <<script, env, proc, route, pc, req, res, verif, auditSink, sent, calls, limiter,
                      jwks, metrics>>

\* the test on the count: the handler option answers 429, or next() is
\* called.  The count tested is the one of the entry the store handed back,
\* read after the await: the count at the increment, or with the hits that
\* other requests of the key have added since.
Decide ==
    \E slot \in DOMAIN burst :
       /\ burst[slot].stage = "counted"
       /\ LET name == burst[slot].name
              key == keyGenerator(burst[slot].request)
          IN \E totalHits \in {burst[slot].totalHits, limiters[name].store[key].totalHits} :
                IF LimitReached(totalHits, limiters[name].max)
                THEN /\ burst' = [burst EXCEPT ![slot].stage = "limited"]
                     /\ UNCHANGED limiters
                ELSE /\ burst' = [burst EXCEPT ![slot].stage = "passed"]
                     /\ limiters' = [limiters EXCEPT ![name].passed[key] = @ + 1]
       /\ UNCHANGED <<script, env, proc, route, pc, req, res, verif, auditSink, sent, calls, limiter,
                      jwks, metrics>>

\* the response is out
Leave ==
    \E slot \in DOMAIN burst :
       /\ burst[slot].stage \in {"passed", "limited"}
       /\ burst' = [burst EXCEPT ![slot] = NoBurst[1]]
       /\ UNCHANGED <<script, env, proc, route, pc, req, res, verif, auditSink, sent, calls, limiter,
                      limiters, jwks, metrics>>

\* the limiters with empty stores, serving one request at a time or up to
\* MaxConcurrent together
InitBurst ==
    /\ env = ConfiguredDevelopment
    /\ proc = "running"
    /\ route = NoRoute
    /\ pc = "idle"
    /\ req = NewRequest(Undef)
    /\ res = NewResponse
    /\ verif = NoVerification
    /\ auditSink = <<>>
    /\ sent = <<>>
    /\ calls = NoCalls
    /\ limiter = NoLimiter
    /\ limiters = NoLimiters
    /\ burst \in {NoBurst, [slot \in {1} |-> NoBurst[1]]}
    /\ jwks = NoJwks /\ metrics = NoMetrics
    /\ script = NoScript

NextBurst ==
    \/ Arrive
    \/ Count
    \/ Decide
    \/ Leave

SpecBurst == InitBurst /\ [][NextBurst]_vars

----------------------------------------------------------------------------
(* The test script test-auth-comprehensive.sh, run under set -euo pipefail.  *)
(* Its checks, in the order main calls them: no token, expired token,        *)
(* /healthz, /readyz, and with AUTH_DOMAIN set: wrong audience, missing      *)
(* scope, happy path, metrics without token, metrics without admin scope,    *)
(* rate limiting.  What the server and the token endpoint answer is the      *)
(* world of the run: for every check whether it calls log_pass, calls        *)
(* log_fail, returns without either (no token could be fetched), or has a    *)
(* curl whose exit status is not zero in a plain assignment.                 *)

\* the script is started, with AUTH_DOMAIN set or not, against any world
InitScript ==
    /\ env = ConfiguredDevelopment
    /\ proc = "running"
    /\ route = NoRoute
    /\ pc = "idle"
    /\ req = NewRequest(Undef)
    /\ res = NewResponse
    /\ verif = NoVerification
    /\ auditSink = <<>>
    /\ sent = <<>>
    /\ calls = NoCalls
    /\ limiter = NoLimiter
    /\ limiters = NoLimiters /\ burst = NoBurst /\ jwks = NoJwks
    /\ metrics = NoMetrics
    /\ \E oauth \in BOOLEAN :
          LET count == IF oauth THEN 10 ELSE 4
              Outcomes(k) == {"pass", "fail", "curlFails"}
                             \cup (IF k \in {5, 6, 9, 10} THEN {"skip"} ELSE {})
          IN \E world \in [1..count -> {"pass", "fail", "skip", "curlFails"}] :
                /\ \A k \in 1..count : world[k] \in Outcomes(k)
                /\ script = [NoScript EXCEPT !.stage = "running", !.oauth = oauth,
                                             !.world = world]

\* main "$@": the next check of the run, or, after the last one, the summary
\* and the exit status.  ((PASSED++)) and ((FAILED++)) are arithmetic
\* commands: their exit status is 1 when the value of the expression, the
\* counter before the increment, is 0.  They are the last command of
\* log_pass and log_fail, which are called where errexit applies, so a
\* status that is not 0 ends the script with that status; so does a curl
\* that fails in response=$(curl ...).
main ==
    /\ script.stage = "running"
    /\ LET ArithmeticCommand(value) == IF value = 0 THEN 1 ELSE 0
           Errexit(s, status) ==
               IF status # 0 THEN [s EXCEPT !.stage = "exited", !.status = status]
               ELSE [s EXCEPT !.at = @ + 1]
           log_pass(s) == Errexit([s EXCEPT !.PASSED = @ + 1], ArithmeticCommand(s.PASSED))
           log_fail(s) == Errexit([s EXCEPT !.FAILED = @ + 1], ArithmeticCommand(s.FAILED))
           CurlStatus == 7
       IN script' =
            IF script.at > Len(script.world)
            THEN [script EXCEPT !.summary = TRUE, !.stage = "exited",
                                !.status = IF script.FAILED > 0 THEN 1 ELSE 0]
            ELSE CASE script.world[script.at] = "pass" -> log_pass(script)
                   [] script.world[script.at] = "fail" -> log_fail(script)
                   [] script.world[script.at] = "curlFails" -> Errexit(script, CurlStatus)
                   [] OTHER -> Errexit(script, 0)
    /\ UNCHANGED <<env, proc, route, pc, req, res, verif, auditSink, sent, calls, limiter,
                   limiters, burst, jwks, metrics>>

NextScript == main

SpecScript == InitScript /\ [][NextScript]_vars

----------------------------------------------------------------------------
(* Properties *)

\* the credential word of a Bearer header (the empty word when there is none)
BearerToken == extractBearerToken(req.authorization)

\* the aud claim is a string and the same string as the configured audience
AudienceExact(token) ==
    /\ Get(token, "aud").t = "string"
    /\ env.AUTH_AUDIENCE.t = "string"
    /\ token.aud.w = env.AUTH_AUDIENCE.w

\* the iss claim is a string and the same string as the configured issuer
IssuerExact(token) ==
    /\ Get(token, "iss").t = "string"
    /\ env.AUTH_ISSUER.t = "string"
    /\ token.iss.w = env.AUTH_ISSUER.w

\* the token passes every step of verification: three segments, the pinned
\* algorithm, a good signature, active and unexpired within the clock
\* tolerance, sub, aud and iss present, audience and issuer as configured
PassesEveryStep(token) ==
    /\ token.kind = "jwt"
    /\ token.segments = 3
    /\ token.alg = "RS256"
    /\ token.sig = "valid"
    /\ token.nbf.t = "number" => token.nbf.n <= ClockNow + clockTolerance
    /\ token.exp.t = "number" => token.exp.n + clockTolerance > ClockNow
    /\ token.sub.t = "string" /\ token.sub.w # <<"">>
    /\ AudienceExact(token)
    /\ IssuerExact(token)

AuthMethod(request) == Get(request.auth, "auth_method")

\* C1: when NODE_ENV is 'production' and ENABLE_BASIC_AUTH_FALLBACK is 'true'
\* the process exits at module load and handles no request; hence whenever
\* a request is being handled in production the Basic fallback is off, and no
\* request, and no audit entry, carries the auth method 'basic' in production.
C1_ProductionNeverBasic ==
    /\ (env.NODE_ENV = Str("production") /\ env.ENABLE_BASIC_AUTH_FALLBACK = Str("true"))
          => /\ proc \in {"loading", "exited"}
             /\ pc = "idle" /\ sent = <<>> /\ calls = NoCalls
    /\ (proc = "running" /\ env.NODE_ENV = Str("production"))
          => /\ env.ENABLE_BASIC_AUTH_FALLBACK # Str("true")
             /\ AuthMethod(req) # Str("basic")
             /\ \A i \in 1..Len(auditSink) : auditSink[i].auth_method # Str("basic")

\* C1 witness: a production server has answered a request that presented the
\* configured Basic credentials
C1_Witness ==
    /\ env.NODE_ENV = Str("production")
    /\ env.BASIC_AUTH_USER = Str("admin") /\ env.BASIC_AUTH_PASS = Str("secret")
    /\ proc = "running"
    /\ pc = "done"
    /\ req.authorization = StrW(<<"Basic", B64(<<"admin", "secret">>)>>)
    /\ res.statusCode = 401

\* C2: a token whose aud claim is not exactly the configured AUTH_AUDIENCE is
\* rejected by verifyToken whatever else holds of it; it is never resolved to
\* a decoded payload and never becomes the identity of the request.
C2_WrongAudienceRejected ==
    ~AudienceExact(BearerToken)
       => /\ verif.state # "resolved"
          /\ verif.decoded = Undef
          /\ verif.state \in {"none", "pending", "rejected"}
          /\ AuthMethod(req) # Str("jwt")

\* C2 witness: a token with a good signature, issuer and expiry whose aud is a
\* list holding the configured audience and another one passes jwt.verify and
\* is rejected by the audience pin
C2_Witness ==
    /\ BearerToken = [BaseJwt EXCEPT !.aud = Arr(<<AudienceValue, "other-api">>)]
    /\ verif.state = "rejected"
    /\ verif.message.text = "Invalid audience"
    /\ pc = "done"
    /\ res.statusCode = 401

\* C3: in authenticate the scope check runs only after verifyToken has
\* succeeded: a 403 is sent only for a token that passed every verification
\* step, and a request whose token went to verification with an aud other
\* than the pinned audience is answered 401, never 403.
C3_ScopeCheckAfterVerify ==
    /\ res.statusCode = 403
          => /\ verif.state = "resolved"
             /\ PassesEveryStep(BearerToken)
    /\ (calls.verifyToken >= 1 /\ ~AudienceExact(BearerToken))
          => /\ res.statusCode # 403
             /\ pc = "done" => res.statusCode = 401

\* C3 witness: a validly signed token that lacks the required scope and whose
\* aud is not the pinned audience has been answered 401
C3_Witness ==
    /\ BearerToken = [BaseJwt EXCEPT !.aud = Arr(<<AudienceValue, "other-api">>),
                                     !.scope = ReadScope]
    /\ route.opts.requiredScopes = <<"mcp:tools.exec">>
    /\ calls.verifyToken = 1
    /\ verif.message.text = "Invalid audience"
    /\ pc = "done"
    /\ res.statusCode = 401

\* the 401 responses among those sent
Rejections401 == {i \in 1..Len(sent) : sent[i].statusCode = 401}

C5_VerifyFailureTerminal ==
    verif.state = "rejected"
       => /\ calls.verifyToken = 1
          /\ calls.next = 0
          /\ calls.handler = 0
          /\ req.user = Undef /\ req.auth = Undef
          /\ pc \in {"awaitVerify", "done"}
          /\ pc = "done" => (res.statusCode = 401 /\ res.ended = 1 /\ Len(sent) = 1)

\* C5 witness: an entirely valid token was rejected because the key could not
\* be resolved, and the request was answered 401
C5_Witness ==
    /\ BearerToken = BaseJwt
    /\ env.AUTH_AUDIENCE = Str(AudienceValue) /\ env.AUTH_ISSUER = Str(IssuerValue)
    /\ env.JWKS_URI = Str(JwksValue)
    /\ verif.state = "rejected"
    /\ pc = "done"
    /\ res.statusCode = 401

\* C6: with authentication configured and auditLog installed ahead of
\* authenticate, a request without an Authorization header to a route that is
\* not optional is answered 401, never reaches the handler, and leaves
\* exactly one audit entry, with status 401, sub 'anonymous' and auth_method
\* 'none'.
C6_NoHeader401Audited ==
    (/\ req.authorization = Undef
     /\ ~route.opts.optional
     /\ ~ConfigMissing /\ ~DevBypass
     /\ AuditLogFirst
     /\ pc \notin {"idle", "auditLog", "authenticate"})
       => /\ pc = "done"
          /\ res.statusCode = 401
          /\ calls.handler = 0 /\ calls.next = 0
          /\ Len(auditSink) = 1
          /\ auditSink[1].status = 401
          /\ auditSink[1].sub = Str("anonymous")
          /\ auditSink[1].auth_method = Str("none")

\* C6 witness: such a request has been answered on a production server
C6_Witness ==
    /\ req.authorization = Undef
    /\ ~route.opts.optional
    /\ env.NODE_ENV = Str("production")
    /\ ~ConfigMissing
    /\ AuditLogFirst
    /\ pc = "done"
    /\ res.statusCode = 401
    /\ Len(auditSink) = 1

\* the request has passed authenticate: it was answered or handed on
PastAuthenticate == pc \in {"requireScopes", "handler", "done"}

\* C7 as claimed: without a credential the request is rejected with 401 unless
\* the route is optional, and then it is forwarded with an anonymous Principal
\* attached to the request (read with authentication configured, so that
\* neither the 500 of the configuration check nor the development bypass
\* applies).
C7_AnonymousPrincipalAttached ==
    (~ConfigMissing /\ ~DevBypass /\ ~Truthy(req.authorization) /\ PastAuthenticate)
       => IF route.opts.optional
          THEN calls.next = 1 /\ (Truthy(req.auth) \/ Truthy(req.user))
          ELSE res.statusCode = 401 /\ calls.next = 0

\* C7: a request without a credential is rejected with 401 unless the route
\* is optional, and then next() is called once with req.user and req.auth
\* left unset (no Principal is attached); this holds when neither of the two
\* earlier checks applies: missing configuration answers 500 and the
\* development bypass forwards the request as 'dev-user'. A request that
\* presents a credential on an optional route is verified all the same and is
\* answered 401 when its token or its Basic credentials fail.
C7_OptionalForwardsUnattached ==
    PastAuthenticate
       => /\ ConfigMissing
             => pc = "done" /\ res.statusCode = 500 /\ calls.next = 0
          /\ (~ConfigMissing /\ DevBypass)
             => calls.next = 1 /\ req.auth = DevAuth /\ req.user = DevUser
          /\ (~ConfigMissing /\ ~DevBypass /\ ~Truthy(req.authorization))
             => IF route.opts.optional
                THEN /\ calls.next = 1 /\ calls.verifyToken = 0
                     /\ req.user = Undef /\ req.auth = Undef
                     /\ \A i \in 1..Len(sent) : sent[i].statusCode = 200
                ELSE /\ calls.next = 0 /\ pc = "done" /\ res.statusCode = 401
          /\ (~ConfigMissing /\ ~DevBypass /\ Truthy(req.authorization) /\ route.opts.optional)
             => /\ calls.next = 1 => AuthMethod(req) \in {Str("jwt"), Str("basic")}
                /\ AuthMethod(req) = Str("jwt") => verif.state = "resolved"
                /\ (verif.state = "rejected" /\ pc = "done") => res.statusCode = 401
                /\ calls.next = 0 => (pc = "done" /\ res.statusCode \in {401, 403})

\* C7 witness: a request without a credential on an optional route has been
\* forwarded to the handler with no identity attached
C7_Witness ==
    /\ req.authorization = Undef
    /\ route.opts.optional
    /\ ~ConfigMissing /\ ~DevBypass
    /\ calls.next = 1 /\ calls.handler = 1
    /\ req.auth = Undef /\ req.user = Undef

\* the user and the password a Basic credential presents: the text before the
\* first ':' and all of the text after it
PresentedUser(word) == <<DecodeCredentials(word)[1]>>
PresentedPassword(word) == Tail(DecodeCredentials(word))

\* C8 as claimed: a Basic header authenticates a request only when the
\* fallback is enabled and the presented user and password both equal the
\* configured pair; with the fallback disabled, or no pair configured, a
\* Basic header that reaches the credential checks is answered 401 and never
\* forwarded.
C8_BasicOnlyWithConfiguredPair ==
    /\ AuthMethod(req) = Str("basic")
          => /\ env.ENABLE_BASIC_AUTH_FALLBACK = Str("true")
             /\ StartsWithBasic(req.authorization)
             /\ env.BASIC_AUTH_USER.t = "string" /\ env.BASIC_AUTH_PASS.t = "string"
             /\ PresentedUser(req.authorization.w[2]) = env.BASIC_AUTH_USER.w
             /\ PresentedPassword(req.authorization.w[2]) = env.BASIC_AUTH_PASS.w
    /\ (/\ Truthy(req.authorization) /\ StartsWithBasic(req.authorization)
        /\ \/ env.ENABLE_BASIC_AUTH_FALLBACK # Str("true")
           \/ env.BASIC_AUTH_USER = Undef
           \/ env.BASIC_AUTH_PASS = Undef
        /\ ~ConfigMissing /\ ~DevBypass
        /\ PastAuthenticate)
          => /\ pc = "done" /\ res.statusCode = 401
             /\ calls.next = 0 /\ calls.handler = 0

\* the set of scopes a scope value names
ScopeSet(v) ==
    CASE v.t = "array" -> Range(v.a)
      [] v.t = "string" -> Range(v.w) \ {""}
      [] OTHER -> {}

Held == ScopeSet(UserScopes(req))
Required == ScopeSet(route.policy.required)
HasIdentity == Truthy(req.user) \/ Truthy(req.auth)
ScopeChecked == pc \in {"handler", "done"}
ScopeAllowed == calls.scopeNext = 1
ScopeDenied == res.statusCode = 403 /\ calls.scopeNext = 0 /\ calls.handler = 0

\* C9: in 'all' mode requireScopes lets a request with an identity pass
\* exactly when every required scope is among the held ones, and the 403 it
\* sends otherwise reports as missing_scopes exactly the required scopes
\* that are not held, for scope lists given as strings or as arrays.
C9_AllModeExact ==
    (ScopeChecked /\ HasIdentity /\ route.policy.mode = "all")
       => /\ ScopeAllowed <=> Required \subseteq Held
          /\ ~ScopeAllowed
             => /\ ScopeDenied
                /\ Range(res.body.missing_scopes) = Required \ Held
                /\ Range(res.body.required_scopes) = Required
                /\ Range(res.body.user_scopes) = Held

\* C9 witness: an 'all' policy of two scopes given as a string was denied to
\* a caller holding one of them, given as an array
C9_Witness ==
    /\ route.policy.mode = "all"
    /\ route.policy.required = StrW(<<"mcp:tools.read", "mcp:admin">>)
    /\ req.auth = [t |-> "object", sub |-> Str("client-1"), scopes |-> Arr(<<"mcp:tools.read">>)]
    /\ ScopeDenied
    /\ res.body.missing_scopes = <<"mcp:admin">>

\* C10: in 'any' mode requireScopes lets a request with an identity pass
\* exactly when it holds at least one required scope or none is required;
\* with no scope required every identity passes in both modes, also one
\* that holds no scope.
C10_AnyModeAndEmptyRequired ==
    (ScopeChecked /\ HasIdentity)
       => /\ route.policy.mode = "any"
             => (ScopeAllowed <=> (Required = {} \/ Required \cap Held # {}))
          /\ ~ScopeAllowed => ScopeDenied
          /\ Required = {} => ScopeAllowed

\* C10 witness: a caller holding no scope has passed an 'any' policy that
\* requires none, and the handler has run
C10_Witness ==
    /\ route.policy.mode = "any"
    /\ Required = {}
    /\ HasIdentity
    /\ Held = {}
    /\ ScopeAllowed
    /\ calls.handler = 1

\* the canonical scope that MCP_SCOPES maps a deprecated scope name to
Canonical(scope) ==
    CASE scope \in {MCP_SCOPES.SEARCH, MCP_SCOPES.FETCH, MCP_SCOPES.READ} -> MCP_SCOPES.TOOLS_READ
      [] scope \in {MCP_SCOPES.PROCESS, MCP_SCOPES.WRITE, MCP_SCOPES.TOOLS,
                    MCP_SCOPES.TOOLS_CALL} -> MCP_SCOPES.TOOLS_EXEC
      [] OTHER -> scope

LegacyNames ==
    {MCP_SCOPES.SEARCH, MCP_SCOPES.FETCH, MCP_SCOPES.READ, MCP_SCOPES.PROCESS,
     MCP_SCOPES.WRITE, MCP_SCOPES.TOOLS, MCP_SCOPES.TOOLS_CALL}

\* a policy of requireScopes allows the holder of a set of scopes
PolicyAllows(policy, held) ==
    IF policy.mode = "any"
    THEN ScopeSet(policy.required) = {} \/ ScopeSet(policy.required) \cap held # {}
    ELSE ScopeSet(policy.required) \subseteq held

\* the route, by authenticate's requiredScopes and by its requireScopes
\* policy, lets the holder of a set of scopes through
RouteAllows(held) ==
    /\ Range(route.opts.requiredScopes) \subseteq held
    /\ route.policy.installed => PolicyAllows(route.policy, held)

\* the scopes the scope claim of a token names
TokenScopes(token) == ScopeSet(Get(token, "scope"))

\* C11 as claimed: a verified token whose only scope is a legacy name is
\* treated as a token holding the canonical equivalent on every path: the
\* request is answered 403 exactly when a holder of the canonical scope
\* would be, whether the route's policy is authenticate's requiredScopes or
\* a requireScopes middleware.
C11_LegacyEqualsCanonical ==
    (/\ verif.state = "resolved"
     /\ pc = "done"
     /\ TokenScopes(BearerToken) \subseteq LegacyNames
     /\ Cardinality(TokenScopes(BearerToken)) = 1)
       => (res.statusCode = 403
             <=> ~RouteAllows({Canonical(s) : s \in TokenScopes(BearerToken)}))

PresetNames == {"requireRead", "requireToolsExec", "requireAdmin"}

Rearranged(seq) == {[i \in 1..Len(seq) |-> seq[p[i]]] : p \in Permutations(1..Len(seq))}
Repeated(seq) == {seq \o <<seq[i]>> : i \in 1..Len(seq)}

\* a held-scope value with its entries permuted or repeated
HeldVariants(v) ==
    CASE v.t = "array" -> {Arr(x) : x \in Rearranged(v.a) \cup Repeated(v.a)}
      [] v.t = "string" -> {StrW(x) : x \in Rearranged(v.w) \cup Repeated(v.w)}
      [] OTHER -> {v}

\* C13: the scope decision depends only on the set of held scopes: for the
\* policy of the route, the check evaluated again on the held scopes as they
\* are, permuted, or with a scope repeated gives the outcome the request got,
\* allow or deny, and the same missing scopes; so does hasRequiredScopes of
\* authenticate for a scope claim permuted or repeated.
C13_HeldOrderIrrelevant ==
    (ScopeChecked /\ HasIdentity)
       => \A v \in HeldVariants(UserScopes(req)) :
             /\ ScopeSet(v) = Held
             /\ ScopeAllowed
                  <=> IF route.policy.mode = "any"
                      THEN hasAnyScope(v, route.policy.required)
                      ELSE hasAllScopes(v, route.policy.required)
             /\ ~ScopeAllowed
                  => res.body.missing_scopes = getMissingScopes(v, route.policy.required)
             /\ v.t = "string"
                  => hasRequiredScopes([scope |-> v], parseScopes(route.policy.required))
                       = hasRequiredScopes([scope |-> UserScopes(req)],
                                           parseScopes(route.policy.required))

\* C13 witness: a caller holding two different scopes, of which the policy
\* requires the second one and a third, was denied
C13_Witness ==
    /\ UserScopes(req) = Arr(<<MCP_SCOPES.TOOLS_READ, MCP_SCOPES.TOOLS_EXEC>>)
    /\ route.policy.mode = "all"
    /\ route.policy.required = Arr(<<MCP_SCOPES.TOOLS_EXEC, MCP_SCOPES.ADMIN>>)
    /\ ScopeDenied
    /\ res.body.missing_scopes = <<MCP_SCOPES.ADMIN>>

\* the 403 was sent by authenticate (next was not called), or by requireScopes
ForbiddenByAuthenticate == res.statusCode = 403 /\ calls.next = 0
ForbiddenByRequireScopes == res.statusCode = 403 /\ calls.next = 1 /\ calls.scopeNext = 0
ScopeReportFields == {"required_scopes", "user_scopes", "missing_scopes"}

\* C14 as stated: every 403 for insufficient scope, from authenticate's
\* requiredScopes check as well as from requireScopes, carries the required
\* scopes, the scopes the caller holds and the missing scopes.
C14_Every403ReportsHeldAndMissing ==
    res.statusCode = 403 => ScopeReportFields \subseteq DOMAIN res.body

\* C14: a 403 of requireScopes carries the required scopes, the scopes the
\* caller holds and the required scopes it does not hold; a 403 of
\* authenticate's requiredScopes check carries error, message and the
\* required scopes only.
C14_ForbiddenBodies ==
    /\ res.statusCode = 403 => ForbiddenByAuthenticate \/ ForbiddenByRequireScopes
    /\ ForbiddenByRequireScopes
         => /\ DOMAIN res.body = {"error", "message"} \cup ScopeReportFields
            /\ res.body.error = "forbidden"
            /\ res.body.required_scopes = parseScopes(route.policy.required)
            /\ Range(res.body.user_scopes) = Held
            /\ Range(res.body.missing_scopes) = Required \ Held
    /\ ForbiddenByAuthenticate
         => /\ DOMAIN res.body = {"error", "message", "required_scopes"}
            /\ res.body.error = "forbidden"
            /\ res.body.required_scopes = route.opts.requiredScopes
            /\ res.body.required_scopes # <<>>
            /\ ~(Range(res.body.required_scopes) \subseteq TokenScopes(BearerToken))

\* C14 witness: authenticate answered 403 to a verified token lacking the
\* required scope of the route
C14_Witness ==
    /\ ForbiddenByAuthenticate
    /\ pc = "done"
    /\ verif.state = "resolved"
    /\ res.body.required_scopes = <<MCP_SCOPES.TOOLS_EXEC>>

\* authenticate verified the token, attached the identity and called next
Attached == verif.state = "resolved" /\ calls.next = 1

Limited == pc = "done" /\ res.statusCode = 429
PassedLimiter == pc = "handler" \/ (pc = "done" /\ res.statusCode = 200)

\* the key of the request: its authenticated subject, else its origin
RequestKey ==
    IF Truthy(req.auth) /\ Truthy(Get(req.auth, "sub"))
    THEN [prefix |-> "sub", id |-> req.auth.sub]
    ELSE [prefix |-> "ip", id |-> req.ip]

\* every request so far had the key of this one, within one window
OneKeyOneWindow ==
    /\ limiter.now < limiter.windowMs
    /\ \A k \in RateKeys \ {RequestKey} : limiter.store[k] = NoClient

\* the position of the arriving request among those of its key in the key's
\* current window, as the store has counted them
PositionInWindow ==
    LET client == limiter.store[RequestKey]
    IN IF client.resetTime > limiter.now THEN client.totalHits + 1 ELSE 1

\* C16: within a window the N-th request of a key is let through when N is
\* at most the maximum of the limiter, and the (max+1)-th and every later one
\* is answered 429.  While all requests have had one key and its first window
\* is open, N is the number of requests received; in general the store counts
\* each request of a key once, and the answer is 429 exactly when the
\* position of the request in its key's window exceeds the maximum.
C16_NthRequestWithinMax ==
    /\ []((OneKeyOneWindow /\ pc \in {"handler", "done"})
            => /\ limiter.store[RequestKey].totalHits = limiter.requests
               /\ Limited <=> limiter.requests > limiter.max
               /\ PassedLimiter <=> limiter.requests <= limiter.max)
    /\ [][pc = "rateLimit"
            => /\ limiter'.store[RequestKey].totalHits = PositionInWindow
               /\ Limited' <=> PositionInWindow > limiter.max
               /\ (pc' = "handler") <=> PositionInWindow <= limiter.max]_vars

\* C16 witness: the sixth request of one subject within a minute, at the
\* limiter of five a minute, was answered 429
C16_Witness ==
    /\ Limited
    /\ OneKeyOneWindow
    /\ RequestKey = SubKey(Str("client-1"))
    /\ limiter.requests = heavyRateLimiter.max + 1
    /\ limiter.now = 59 * 1000

\* the request carries an authenticated subject
HasSubject == Truthy(req.auth) /\ Truthy(Get(req.auth, "sub"))

\* C17: the limiter counts a request under 'sub:<subject>' when the request
\* carries an authenticated subject and under 'ip:<origin>' only otherwise.
\* A request with a subject changes the bucket of that subject and no other,
\* whatever its origin, so requests of one subject from different origins
\* share a bucket, no bucket of an origin and no bucket of another subject is
\* touched; a request without a subject changes the bucket of its origin only.
C17_KeyBySubjectElseOrigin ==
    /\ [](pc \in {"handler", "done"}
            => limiter.key = IF HasSubject THEN [prefix |-> "sub", id |-> req.auth.sub]
                             ELSE [prefix |-> "ip", id |-> req.ip])
    /\ [][pc = "rateLimit"
            => LET own == IF HasSubject THEN [prefix |-> "sub", id |-> req.auth.sub]
                          ELSE [prefix |-> "ip", id |-> req.ip]
               IN /\ limiter'.store[own].totalHits >= 1
                  /\ limiter'.store[own] # limiter.store[own]
                  /\ \A k \in RateKeys \ {own} : limiter'.store[k] = limiter.store[k]]_vars

\* C17 witness: the second request of a subject, coming from the second
\* origin, was counted as the second of the subject's bucket while no bucket
\* of an origin was touched
C17_Witness ==
    /\ pc = "handler"
    /\ HasSubject
    /\ req.auth.sub = Str("client-1")
    /\ req.ip = Str("198.51.100.7")
    /\ limiter.requests = 2
    /\ limiter.store[SubKey(Str("client-1"))].totalHits = 2
    /\ \A o \in Origins : limiter.store[IpKey(o)] = NoClient
    /\ limiter.store[SubKey(Str("client-2"))] = NoClient

\* no bucket of the limiter has counted anything
NoBucketTouched ==
    \A k \in RateKeys :
       limiter.store[k] \in {NoClient, [totalHits |-> limiter.max, resetTime |-> limiter.windowMs]}

\* C18 as stated: the limiter is consulted only after the token has been
\* verified and the scopes have satisfied the policy of the route: a request
\* answered 401 or 403 has incremented no bucket, and a request whose token
\* was verified is counted under its subject, never under its origin.
C18_LimiterOnlyAfterAuthorization ==
    /\ res.statusCode \in {401, 403} => NoBucketTouched
    /\ (Attached /\ ~NoBucketTouched)
         => /\ limiter.key = SubKey(verif.decoded.sub)
            /\ \A o \in Origins \cup {Undef} :
                  limiter.store[IpKey(o)].totalHits \in {0, limiter.max}

\* milliseconds until the window of the key of the request ends
RemainingMs == limiter.store[RequestKey].resetTime - limiter.now

\* n is the number of milliseconds ms rounded up to whole seconds
IsSecondsRoundedUp(n, ms) == (n - 1) * 1000 < ms /\ ms <= n * 1000

\* C19 as stated: the retry_after of a 429 is the number of seconds that
\* remain until the window of the key resets.
C19_RetryAfterIsRemainingTime ==
    Limited => IsSecondsRoundedUp(res.body.retry_after, RemainingMs)

\* C19: the retry_after of a 429 is the length of the window of the limiter
\* in seconds, rounded up, whenever in the window the denial happens; it is
\* positive and never less than the seconds that remain until the window of
\* the key resets.
C19_RetryAfterIsWindowLength ==
    Limited
       => /\ DOMAIN res.body = {"error", "message", "retry_after"}
          /\ res.body.error = "rate_limit_exceeded"
          /\ IsSecondsRoundedUp(res.body.retry_after, limiter.windowMs)
          /\ res.body.retry_after > 0
          /\ 0 < RemainingMs /\ RemainingMs <= res.body.retry_after * 1000

\* C19 witness: a denial one second before the window of the key ends
\* carries retry_after 60
C19_Witness ==
    /\ Limited
    /\ RemainingMs = 1000
    /\ res.body.retry_after = 60

\* the window of a bucket is open: it has begun and has not ended
WindowOpen(client) == client.resetTime > limiter.now

\* C20: every key has a window of its own.  A request of a key whose window
\* has elapsed, or that has none, starts a new window of the limiter's length
\* with the count at one and is let through, however many requests the key
\* had been denied; a request within the open window of its key leaves the
\* end of that window where it was; a request changes the bucket of no other
\* key, and the passing of time changes no count.
C20_WindowPerKey ==
    /\ [][pc = "rateLimit"
            => LET client == limiter.store[RequestKey]
                   after == limiter'.store[RequestKey]
               IN /\ ~WindowOpen(client)
                       => /\ after = [totalHits |-> 1,
                                      resetTime |-> limiter.now + limiter.windowMs]
                          /\ pc' = "handler"
                  /\ WindowOpen(client)
                       => /\ after.resetTime = client.resetTime
                          /\ after.totalHits = client.totalHits + 1
                  /\ \A k \in RateKeys \ {RequestKey} :
                        limiter'.store[k] = limiter.store[k]]_vars
    /\ [][pc # "rateLimit" => limiter'.store = limiter.store]_vars
    /\ [](\A k \in RateKeys :
             WindowOpen(limiter.store[k])
                => /\ limiter.store[k].resetTime - limiter.windowMs <= limiter.now
                   /\ limiter.store[k].totalHits >= 1)

\* C20 witness: a subject that had used up its window, the sixth request
\* denied, is let through again as the first of a new window, while the
\* window of an origin, begun in between, stays open with its count
C20_Witness ==
    /\ pc = "handler"
    /\ limiter.requests = heavyRateLimiter.max + 3
    /\ limiter.now = 2 * 59 * 1000
    /\ RequestKey = SubKey(Str("client-1"))
    /\ limiter.store[RequestKey] = [totalHits |-> 1, resetTime |-> limiter.now + limiter.windowMs]
    /\ limiter.store[IpKey(Str("203.0.113.1"))] = [totalHits |-> 1, resetTime |-> 59 * 1000 + limiter.windowMs]
    /\ \A k \in RateKeys \ {RequestKey, IpKey(Str("203.0.113.1"))} : limiter.store[k] = NoClient

\* the requests of a key that are inside the limiter `name` at a stage
InsideAt(name, key, stage) ==
    {slot \in DOMAIN burst : /\ burst[slot].stage = stage
                             /\ burst[slot].name = name
                             /\ keyGenerator(burst[slot].request) = key}

\* C21 as stated: under any interleaving of the requests of a key, the
\* requests let through in a window never exceed the maximum, and the count
\* of the bucket never exceeds the maximum.
C21_CountNeverExceedsMax ==
    \A key \in RateKeys :
       /\ limiters.heavy.passed[key] <= limiters.heavy.max
       /\ limiters.heavy.store[key].totalHits <= limiters.heavy.max

\* C21: under any interleaving of the requests of a key within a window, the
\* requests let through never exceed the maximum; the bucket counts every
\* request that has reached the increment, the rejected ones too, so its
\* count does exceed the maximum; a request is let through only when its own
\* hit was within the maximum and rejected only when the count has passed
\* it, and a request once let through is not rejected afterwards.
C21_AdmittedNeverExceedsMax ==
    /\ [](\A key \in RateKeys :
            LET l == limiters.heavy
            IN /\ l.passed[key] <= l.max
               /\ l.store[key].totalHits
                    = l.received[key] - Cardinality(InsideAt("heavy", key, "arrived"))
               /\ \A slot \in InsideAt("heavy", key, "passed") :
                     burst[slot].totalHits <= l.max
               /\ InsideAt("heavy", key, "limited") # {} => l.store[key].totalHits > l.max
               /\ \A s1, s2 \in DOMAIN burst :
                     (/\ s1 # s2
                      /\ burst[s1].stage \in {"counted", "passed", "limited"}
                      /\ burst[s2].stage \in {"counted", "passed", "limited"})
                        => burst[s1].totalHits # burst[s2].totalHits)
    /\ [][\A slot \in DOMAIN burst :
             burst[slot].stage = "passed" => burst'[slot].stage \in {"passed", "idle"}]_vars
    /\ [][\A key \in RateKeys :
             limiters'.heavy.passed[key] >= limiters.heavy.passed[key]]_vars

\* C21 witness: of three requests of one subject that were inside the
\* limiter together, the one that made the fifth hit was let through and the
\* two that made the sixth and the seventh were rejected
C21_Witness ==
    /\ \A slot \in DOMAIN burst : keyGenerator(burst[slot].request) = SubKey(Str("client-1"))
    /\ Cardinality(InsideAt("heavy", SubKey(Str("client-1")), "limited")) = 2
    /\ Cardinality(InsideAt("heavy", SubKey(Str("client-1")), "passed")) = 1
    /\ limiters.heavy.store[SubKey(Str("client-1"))].totalHits = heavyRateLimiter.max + 2
    /\ limiters.heavy.passed[SubKey(Str("client-1"))] = heavyRateLimiter.max

\* the smaller of two numbers
Smaller(a, b) == IF a <= b THEN a ELSE b

\* C22: apiRateLimiter lets 100, strictRateLimiter 10 and heavyRateLimiter 5
\* requests of a key through in a window of 60 seconds and rejects the
\* following ones; each limiter counts in a store of its own the requests it
\* has received itself, and a request counted by one limiter leaves the
\* buckets of the other two as they were, for the same key.
C22_NamedLimitersIndependent ==
    /\ [](/\ limiters.api.max = 100 /\ limiters.strict.max = 10 /\ limiters.heavy.max = 5
          /\ \A name \in DOMAIN limiters : limiters[name].windowMs = 60 * 1000
          /\ (DOMAIN burst = {1} /\ burst[1].stage = "idle")
                => \A name \in DOMAIN limiters, key \in RateKeys :
                      /\ limiters[name].store[key].totalHits = limiters[name].received[key]
                      /\ limiters[name].passed[key]
                           = Smaller(limiters[name].received[key], limiters[name].max))
    /\ [][\A slot \in DOMAIN burst :
             (burst[slot].stage = "arrived" /\ burst'[slot].stage = "counted")
                => /\ limiters'[burst[slot].name].store # limiters[burst[slot].name].store
                   /\ \A other \in DOMAIN limiters \ {burst[slot].name} :
                         limiters'[other] = limiters[other]]_vars

\* C22 witness: one subject has sent 101 requests through apiRateLimiter,
\* 11 through strictRateLimiter and 6 through heavyRateLimiter, and each
\* has rejected the last one only
C22_Witness ==
    /\ DOMAIN burst = {1} /\ burst[1].stage = "idle"
    /\ limiters.api.store[SubKey(Str("client-1"))].totalHits = 101
    /\ limiters.api.passed[SubKey(Str("client-1"))] = 100
    /\ limiters.strict.store[SubKey(Str("client-1"))].totalHits = 11
    /\ limiters.strict.passed[SubKey(Str("client-1"))] = 10
    /\ limiters.heavy.store[SubKey(Str("client-1"))].totalHits = 6
    /\ limiters.heavy.passed[SubKey(Str("client-1"))] = 5

\* a status that ends a request of the chain: forwarded, or refused by
\* authenticate, the scope check, the limiter or the configuration check
CompletedStatuses == {200, 401, 403, 429, 500}

\* C23: with auditLog installed ahead of the chain, a response that has ended
\* has produced exactly one audit record, whatever its status (forwarded, 401,
\* 403, 429 or 500), the record carries the status of the response, which is
\* the status sent, no record exists before the response has ended, and a
\* record is written only by the first call of res.end: calling res.end
\* again writes no second record.
C23_OneRecordPerEndedResponse ==
    /\ [](AuditLogFirst
            => /\ Len(auditSink) = (IF res.ended >= 1 THEN 1 ELSE 0)
               /\ res.ended >= 1
                    => /\ res.statusCode \in CompletedStatuses
                       /\ auditSink[1].status = res.statusCode
                       /\ \A i \in 1..Len(sent) : sent[i].statusCode = auditSink[1].status
                       /\ ~res.endThrew)
    /\ [][auditSink' # auditSink
            => /\ res.ended = 0 /\ res'.ended = 1
               /\ auditSink' = Append(auditSink, createAuditLog(req, res'.statusCode))]_vars

\* C23 witness: a request that the limiter answered 429 on a route with
\* auditLog, res.end called a second time, and one record of status 429
C23_Witness ==
    /\ AuditLogFirst
    /\ pc = "done"
    /\ res.ended = MaxEnds
    /\ res.statusCode = 429
    /\ Len(sent) = 1 /\ sent[1].statusCode = 429
    /\ Len(auditSink) = 1 /\ auditSink[1].status = 429

\* C24 as stated: on a route with auditLog, a request whose client closed the
\* connection before the chain completed has an audit record once the chain
\* is through, with the status the response had reached, also when the
\* response was never ended.
C24_ClosedStillAudited ==
    (AuditLogFirst /\ res.closed /\ pc = "done")
        => /\ Len(auditSink) = 1
           /\ auditSink[1].status = res.statusCode

\* C25 as stated: whatever the request looks like (with or without req.ip, an
\* x-forwarded-for header, a connection object), no call of res.end on a
\* route with auditLog has thrown, and the response that was ended has been
\* delivered.
C25_AuditNeverThrows ==
    (AuditLogFirst /\ res.ended >= 1)
        => /\ ~res.endThrew
           /\ Len(sent) = 1

\* the metrics route: authenticate, requireAdmin(), getMetrics as the handler,
\* with or without a limiter
MetricsRoute == route.policy.name = "requireAdmin"

\* the answer the chain gave came from the limiter ahead of authenticate or
\* from the configuration check of authenticate
AnsweredBeforeCredentials ==
    \/ route.limited = "first" /\ res.statusCode = 429
    \/ ConfigMissing /\ res.statusCode = 500

WaitingFor(kid) ==
    {slot \in DOMAIN jwks.waiter :
        jwks.waiter[slot].stage = "waiting" /\ jwks.waiter[slot].kid = kid}

\* C27: of the verifications that ask for the key of one kid while it is not
\* in the cache (never loaded, or expired), the first starts one fetch from
\* the JWKS endpoint and the others join it: at no time are two fetches of a
\* kid under way, a fetch is started only for a kid that is neither cached
\* nor being loaded, all verifications waiting for a kid wait for the one
\* fetch under way, and when it ends every one of them is called back with
\* the same outcome, the key or the error.
C27_OneFetchPerKid ==
    /\ [](\A kid \in DOMAIN jwks.fetches :
            /\ jwks.inFlight[kid] <= 1
            /\ jwks.client.loading[kid] = WaitingFor(kid)
            /\ (jwks.inFlight[kid] = 1) <=> (WaitingFor(kid) # {})
            /\ jwks.client.cache[kid] => WaitingFor(kid) = {})
    /\ [][\A kid \in DOMAIN jwks.fetches :
            /\ (jwks'.fetches[kid] # jwks.fetches[kid])
                 => (/\ jwks'.fetches[kid] = jwks.fetches[kid] + 1
                     /\ ~jwks.client.cache[kid]
                     /\ WaitingFor(kid) = {}
                     /\ jwks.inFlight[kid] = 0)
            /\ (jwks'.inFlight[kid] < jwks.inFlight[kid])
                 => \E outcome \in JwksOutcomes(kid) :
                       /\ \A slot \in WaitingFor(kid) :
                             /\ jwks'.waiter[slot].stage = "called"
                             /\ jwks'.waiter[slot].result = outcome
                       /\ jwks'.client.cache[kid] <=> (outcome = "key")]_vars

\* C27 witness: every verification asked for the key of kid-1 while it was
\* not cached, one fetch was made, and all were called back with its error
C27_Witness ==
    /\ jwks.fetches["kid-1"] = 1
    /\ jwks.inFlight["kid-1"] = 0
    /\ \A slot \in DOMAIN jwks.waiter :
          /\ jwks.waiter[slot].stage = "called"
          /\ jwks.waiter[slot].kid = "kid-1"
          /\ jwks.waiter[slot].result = "JwksError"

\* the request carries a Bearer token whose exp claim is a number
HasExpiry == BearerToken.kind = "jwt" /\ BearerToken.exp.t = "number"

\* the seconds since the exp of the token, at the time it is verified
ExpiredFor(token) == ClockNow - token.exp.n

\* verifyToken has called back for a token that was turned away
TurnedAway ==
    /\ verif.state # "resolved"
    /\ AuthMethod(req) # Str("jwt")
    /\ (calls.verifyToken >= 1 /\ pc = "done")
          => /\ res.statusCode = 401
             /\ res.body.error = "unauthorized"
             /\ calls.next = 0 /\ calls.handler = 0

\* C28: jwt.verify checks exp with a tolerance of 10 seconds and never skips
\* the check.  A token whose exp lies 10 seconds or more in the past is never
\* accepted; 'Token expired' is the answer only to such a token; a token
\* whose exp lies less than 10 seconds in the past and that passes every
\* other step is, once its key was resolved, accepted, and when it is
\* rejected then as 'Invalid token' because the key was not resolved.
C28_ExpiryWithinTolerance ==
    /\ clockTolerance = 10
    /\ HasExpiry
         => /\ (ExpiredFor(BearerToken) >= clockTolerance) => TurnedAway
            /\ (verif.message.text = "Token expired")
                 => (/\ ExpiredFor(BearerToken) >= clockTolerance
                     /\ verif.state = "rejected")
            /\ (ExpiredFor(BearerToken) < clockTolerance /\ PassesEveryStep(BearerToken))
                 => (/\ (verif.state = "rejected") => (verif.message.text = "Invalid token")
                     /\ (pc = "done" /\ calls.verifyToken >= 1 /\ verif.state # "rejected")
                          => (verif.state = "resolved"))

\* C28 witness: a token that expired 9 seconds ago, one second inside the
\* tolerance, was accepted and its request forwarded
C28_Witness ==
    /\ BearerToken = [BaseJwt EXCEPT !.exp = Num(ClockNow - clockTolerance + 1)]
    /\ ExpiredFor(BearerToken) = clockTolerance - 1
    /\ verif.state = "resolved"
    /\ AuthMethod(req) = Str("jwt")
    /\ pc = "done" /\ res.statusCode = 200 /\ calls.handler = 1

\* C29: only a token whose header names RS256 is ever accepted; the alg of
\* the header selects nothing: a token that declares HS256 or none, with
\* whatever signature and with claims that pass every other step, is not
\* accepted, never becomes the identity of the request, and its request is
\* answered 401 unauthorized and not forwarded.
C29_OnlyPinnedAlgorithm ==
    (BearerToken.kind = "jwt")
        => /\ (verif.state = "resolved") => (BearerToken.alg = "RS256")
           /\ (BearerToken.alg # "RS256") => TurnedAway
           /\ (BearerToken.alg # "RS256" /\ verif.state = "rejected" /\ ~IsProduction)
                => (verif.message.text = "Invalid token")

\* C29 witness: a token that declares HS256 and otherwise passes every step
\* was answered 401 'Invalid token' on a fully configured server
C29_Witness ==
    /\ BearerToken = [BaseJwt EXCEPT !.alg = "HS256"]
    /\ PassesEveryStep([BearerToken EXCEPT !.alg = "RS256"])
    /\ verif.state = "rejected"
    /\ pc = "done"
    /\ Len(sent) = 1 /\ sent[1].statusCode = 401
    /\ sent[1].body = Unauthorized(Msg("Invalid token"))

\* the token lacks one of sub, aud and iss, or has it empty, or its iss is not
\* the configured AUTH_ISSUER
LacksRequiredClaim(token) ==
    \/ ~Truthy(token.sub)
    \/ ~Truthy(token.aud)
    \/ ~Truthy(token.iss)
    \/ ~IssuerExact(token)

\* C30: a token is accepted only if its sub, aud and iss are present and not
\* empty and its iss is the configured AUTH_ISSUER; a token that lacks one of
\* them or names another issuer, however well signed and unexpired, is not
\* accepted, never becomes the identity of the request, and its request is
\* answered 401 and not forwarded.
C30_RequiredClaims ==
    (BearerToken.kind = "jwt")
        => /\ (verif.state = "resolved")
                => (/\ ~LacksRequiredClaim(BearerToken)
                    /\ verif.decoded.iss = AUTH_ISSUER
                    /\ Truthy(verif.decoded.sub) /\ Truthy(verif.decoded.aud))
           /\ LacksRequiredClaim(BearerToken) => TurnedAway

\* C30 witness: a well signed, unexpired token with an empty sub was answered
\* 401 for the missing claim
C30_Witness ==
    /\ BearerToken = [BaseJwt EXCEPT !.sub = EmptyStr]
    /\ verif = Rejected(Msg("Token missing required sub claim"))
    /\ pc = "done"
    /\ res.statusCode = 401
    /\ calls.handler = 0

\* the request has passed collectMetrics
EnteredCollectMetrics ==
    /\ route.metered # "none"
    /\ pc \notin {"idle", "collectMetrics"}
    /\ ~(route.metered = "last" /\ route.audited /\ pc = "auditLog")

\* the request came with an address the audit entry can name
HasAddress == ClientIp(req).t # "TypeError"

C32_RateLimitCounted ==
    Limited
        => /\ metrics.rateLimitExceeded[limiter.key.prefix] = 1
           /\ \A label \in DOMAIN metrics.rateLimitExceeded \ {limiter.key.prefix} :
                 metrics.rateLimitExceeded[label] = 0

\* the request carries the identity authenticate makes up in the bypass
ForwardedAsDevUser == req.auth = DevAuth /\ req.user = DevUser

\* C33: a request is given the identity dev-user, which holds mcp:admin, only
\* when NODE_ENV is not 'production', the route was not created with
\* enforceAuth, AUTH_ISSUER is unset and the Basic fallback is off; never in
\* production and never on a route with enforceAuth.  In that configuration
\* every request, whatever its Authorization header, is forwarded as dev-user
\* without its credentials being looked at.
C33_BypassOnlyWhenUnenforced ==
    /\ (env.NODE_ENV = Str("production") \/ route.opts.enforceAuth)
          => (req.auth # DevAuth /\ req.user # DevUser /\ Get(req.auth, "sub") # Str("dev-user"))
    /\ (req.auth = DevAuth \/ req.user = DevUser)
          => (/\ ForwardedAsDevUser
              /\ env.NODE_ENV # Str("production")
              /\ ~route.opts.enforceAuth
              /\ ~Truthy(env.AUTH_ISSUER)
              /\ env.ENABLE_BASIC_AUTH_FALLBACK # Str("true")
              /\ MCP_SCOPES.ADMIN \in ScopeSet(req.auth.scopes))
    /\ (/\ proc = "running" /\ pc = "done"
        /\ env.NODE_ENV # Str("production")
        /\ ~route.opts.enforceAuth
        /\ ~Truthy(env.AUTH_ISSUER)
        /\ env.ENABLE_BASIC_AUTH_FALLBACK # Str("true"))
          => (/\ ForwardedAsDevUser
              /\ calls.verifyToken = 0 /\ calls.next = 1 /\ calls.handler = 1
              /\ res.statusCode = 200)

\* C33 witness: an unconfigured development server has forwarded a request
\* whose token is signed by nobody as dev-user
C33_Witness ==
    /\ BearerToken = [BaseJwt EXCEPT !.sig = "invalid"]
    /\ ForwardedAsDevUser
    /\ calls.verifyToken = 0
    /\ pc = "done" /\ res.statusCode = 200 /\ calls.handler = 1

\* authentication must be enforced and its configuration is incomplete
EnforcedButUnconfigured ==
    /\ env.NODE_ENV = Str("production") \/ route.opts.enforceAuth
    /\ \E name \in {"AUTH_AUDIENCE", "AUTH_ISSUER", "JWKS_URI"} : ~Truthy(env[name])

\* C34: when NODE_ENV is 'production' or the route has enforceAuth, and
\* AUTH_AUDIENCE, AUTH_ISSUER or JWKS_URI is missing, authenticate answers
\* every request 500 'Authentication not configured' without looking at its
\* credentials: verifyToken is not called, no identity is attached, next() is
\* not called and the handler does not run, whatever the header and also on
\* an optional route.
C34_UnconfiguredAnswers500 ==
    (proc = "running" /\ EnforcedButUnconfigured)
        => /\ calls.verifyToken = 0 /\ calls.next = 0 /\ calls.handler = 0
           /\ req.user = Undef /\ req.auth = Undef
           /\ verif = NoVerification
           /\ pc \in {"idle", "auditLog", "authenticate", "done"}
           /\ (pc = "done")
                => (/\ res.statusCode = 500
                    /\ sent = <<[statusCode |-> 500,
                                 body |-> ErrorBody("internal_error",
                                                    Msg("Authentication not configured"))]>>)

\* C34 witness: a development server without JWKS_URI, with the Basic
\* fallback on, has answered 500 to a request with the right Basic
\* credentials on an optional route with enforceAuth
C34_Witness ==
    /\ env.NODE_ENV = Undef /\ env.JWKS_URI = Undef
    /\ env.ENABLE_BASIC_AUTH_FALLBACK = Str("true")
    /\ env.BASIC_AUTH_USER = Str("admin") /\ env.BASIC_AUTH_PASS = Str("secret")
    /\ route.opts.enforceAuth /\ route.opts.optional
    /\ req.authorization = StrW(<<"Basic", B64(<<"admin", "secret">>)>>)
    /\ pc = "done" /\ res.statusCode = 500 /\ calls.handler = 0

\* authenticate has been entered and has not returned
InAuthenticate == pc \in {"authenticate", "getSigningKey", "awaitVerify"}

\* the outcome of authenticate that has returned: forwarded by one next()
\* without a response of its own, or answered once with 401, 403 or 500
\* without next()
ForwardedOnce ==
    /\ calls.next = 1
    /\ \/ pc = "handler" /\ sent = <<>> /\ res.ended = 0
       \/ /\ pc = "done" /\ calls.handler = 1
          /\ Len(sent) = 1 /\ sent[1].statusCode = 200 /\ res.ended = 1
AnsweredOnce ==
    /\ calls.next = 0 /\ calls.handler = 0
    /\ pc = "done"
    /\ Len(sent) = 1 /\ res.ended = 1
    /\ sent[1].statusCode \in {401, 403, 500}
    /\ res.statusCode = sent[1].statusCode

\* C35: every invocation of authenticate returns, and when it has returned
\* it has either called next() exactly once and written no response, or
\* written exactly one response, a 401, 403 or 500, and not called next();
\* never both, never neither, and before it returns it has done neither.
C35_ExactlyOneOutcome ==
    /\ [](InAuthenticate => (calls.next = 0 /\ sent = <<>> /\ res.ended = 0))
    /\ []((pc \in {"handler", "done"}) => (ForwardedOnce \/ AnsweredOnce))
    /\ [](~(ForwardedOnce /\ AnsweredOnce))
    /\ (pc = "authenticate") ~> (pc \in {"handler", "done"})

\* C35 witness: authenticate has answered 403 to a verified token that lacks
\* a required scope, after its await, without calling next()
C35_Witness ==
    /\ AnsweredOnce /\ res.statusCode = 403
    /\ calls.verifyToken = 1 /\ verif.state = "resolved"

\* the credential of the request has been verified: the development bypass
\* applies, its Basic pair is the configured one, or its token was verified
CredentialVerified ==
    \/ DevBypass
    \/ /\ ENABLE_BASIC_AUTH_FALLBACK /\ Truthy(req.authorization)
       /\ StartsWithBasic(req.authorization) /\ verifyBasicAuth(req.authorization)
    \/ verif.state = "resolved"

RejectedByAuthenticate == pc = "done" /\ calls.next = 0 /\ calls.handler = 0

\* a request forwarded by authenticate carries req.user and req.auth exactly
\* when its credential was verified
C36_ForwardedCarriesIdentity ==
    (calls.next = 1)
        => /\ (req.auth # Undef) <=> CredentialVerified
           /\ (req.user # Undef) <=> CredentialVerified

\* a rejected request is logged as anonymous, and auth_method 'jwt' is
\* logged only for a verified token that holds the required scopes
C36_AuditShowsOutcome ==
    \A i \in 1..Len(auditSink) :
        /\ (auditSink[i].status \in {401, 403, 500})
              => (auditSink[i].sub = Str("anonymous") /\ auditSink[i].auth_method = Str("none"))
        /\ (auditSink[i].auth_method = Str("jwt"))
              => /\ auditSink[i].status = 200
                 /\ verif.state = "resolved"
                 /\ hasRequiredScopes(verif.decoded, route.opts.requiredScopes) = "true"

\* a request answered 401, 403 or 500 by authenticate has neither req.user
\* nor req.auth
C36_RejectedLeftUnchanged ==
    RejectedByAuthenticate => (req.user = Undef /\ req.auth = Undef)

\* C36: authenticate attaches identity only on success: req.user and
\* req.auth are set exactly when the request is forwarded with a verified
\* credential; on every 401, 403 and 500 of authenticate both are left as
\* they were, so the audit record of a rejected request shows sub
\* 'anonymous', and auth_method 'jwt' is logged only for a token that passed
\* every check.
C36_IdentityOnlyOnSuccess ==
    /\ C36_ForwardedCarriesIdentity
    /\ C36_RejectedLeftUnchanged
    /\ C36_AuditShowsOutcome

\* collectMetrics and auditLog are both installed on the route, and both
\* have run for the request
BothInstalled ==
    /\ route.audited /\ route.metered \in {"first", "last"}
    /\ pc \notin {"idle", "auditLog", "collectMetrics"}

\* C37: with collectMetrics and auditLog both installed, in either order,
\* on a request that has a client address: until the response ends res.end
\* is the wrapper installed last over the wrapper installed first over the
\* original end; a call of res.end writes the response once, records the
\* request metrics once and emits one audit record, all with the status
\* sent, and afterwards res.end is the original function, so that a further
\* call of res.end records nothing more.
C37_WrappersComposeOnce ==
    (BothInstalled /\ HasAddress)
        => /\ (res.ended = 0)
                => /\ EndChain(res.end, res.originalEnd) =
                        IF route.metered = "first" THEN <<"auditLog", "collectMetrics">>
                        ELSE <<"collectMetrics", "auditLog">>
                   /\ sent = <<>> /\ auditSink = <<>> /\ metrics.httpRequests = <<>>
           /\ (res.ended >= 1)
                => /\ res.end = "original"
                   /\ ~res.endThrew
                   /\ Len(sent) = 1
                   /\ Len(metrics.httpRequests) = 1
                   /\ Len(auditSink) = 1
                   /\ metrics.httpRequests[1].status = sent[1].statusCode
                   /\ auditSink[1].status = sent[1].statusCode
                   /\ metrics.httpRequests[1].sub = auditSink[1].sub
                   /\ metrics.activeConnections = 0

\* C37 witness: collectMetrics was installed ahead of auditLog, the handler
\* has answered a verified caller, and res.end has been called a second time
C37_Witness ==
    /\ BothInstalled /\ HasAddress /\ route.metered = "first"
    /\ res.ended = 2 /\ calls.handler = 1
    /\ res.end = "original"
    /\ Len(sent) = 1 /\ Len(auditSink) = 1 /\ Len(metrics.httpRequests) = 1
    /\ auditSink[1].auth_method = Str("jwt")

\* the request was authenticated through the Basic fallback
BasicPrincipal == Get(req.auth, "auth_method") = Str("basic")

\* C38: a principal authenticated through the Basic fallback is given
\* exactly the scopes mcp:tools.exec and mcp:tools.read, in req.auth.scopes
\* and in req.user.scope, and never mcp:admin; behind authenticate,
\* requireAdmin answers it 403 and the handler does not run, while
\* requireRead and requireToolsExec let it through to the handler.
C38_BasicNeverAdmin ==
    BasicPrincipal
        => /\ req.auth.scopes = Arr(<<"mcp:tools.exec", "mcp:tools.read">>)
           /\ req.user.scope = StrW(<<"mcp:tools.exec", "mcp:tools.read">>)
           /\ req.auth.sub = Str("basic-auth-user") /\ req.user.sub = Str("basic-auth-user")
           /\ ~hasAnyScope(UserScopes(req), Arr(<<MCP_SCOPES.ADMIN>>))
           /\ calls.next = 1 /\ pc \in {"requireScopes", "handler", "done"}
           /\ (route.policy = requireAdmin)
                => /\ pc \in {"requireScopes", "done"}
                   /\ calls.scopeNext = 0 /\ calls.handler = 0
                   /\ (pc = "done") => (res.statusCode = 403)
           /\ (route.policy \in {requireRead, requireToolsExec})
                => /\ (pc # "requireScopes") <=> (calls.scopeNext = 1)
                   /\ (pc = "done") => (res.statusCode = 200 /\ calls.handler = 1)

\* C38 witness: requireAdmin has answered 403 to the configured Basic pair
C38_Witness ==
    /\ BasicPrincipal /\ route.policy = requireAdmin
    /\ req.authorization = StrW(<<"Basic", B64(<<"admin", "secret">>)>>)
    /\ pc = "done" /\ res.statusCode = 403 /\ calls.handler = 0

\* the checks of the run that log a result of the given kind
ChecksWith(outcome) == {k \in 1..Len(script.world) : script.world[k] = outcome}

\* C39: a run of the test script in which no curl command fails goes through
\* every check, prints the results summary with the counts of the passed and
\* the failed checks, and exits with status 1 if and only if at least one
\* check failed; a run in which every check passes reaches the summary and
\* exits 0.
C39_RunsToSummary ==
    (script.stage = "exited" /\ ChecksWith("curlFails") = {})
        => /\ script.summary
           /\ script.at > Len(script.world)
           /\ script.PASSED = Cardinality(ChecksWith("pass"))
           /\ script.FAILED = Cardinality(ChecksWith("fail"))
           /\ script.status \in {0, 1}
           /\ (script.status = 1) <=> (ChecksWith("fail") # {})

\* the run in which every check passes has ended before its second check,
\* without the summary, with status 1
C39_AllPassAborts ==
    /\ script.stage = "exited"
    /\ ChecksWith("pass") = 1..Len(script.world)
    /\ script.at = 1 /\ script.PASSED = 1
    /\ ~script.summary /\ script.status = 1

====
